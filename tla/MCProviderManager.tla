--------------------------- MODULE MCProviderManager ---------------------------
(* ProviderManager for TLC: one client with one model, one that rotates.     *)
EXTENDS ProviderManager

CONSTANTS groq, openrouter

Configured == {groq, openrouter}
FallbackChain == <<groq, openrouter>>
FreeModels == [p \in Configured |-> IF p = openrouter THEN 2 ELSE 1]
=============================================================================
