------------------------------- MODULE Pricing -------------------------------
(***************************************************************************)
(* What a request costs (core/pricing): the price of a model is found by   *)
(* an alias, its normalized name, a keyword or the provider, and the       *)
(* buckets of tokens are multiplied by it.                                 *)
(*                                                                         *)
(* A model's name is what the search asks of it: its family's prefix and   *)
(* the rest, whether it ends in a free tier's suffix, how its version is   *)
(* written, the vendor before a slash, and the keywords it contains.  An   *)
(* id is such a name with its vendor, normalized.  Prices are doubled, so  *)
(* that one and a half times a price is a whole number.                    *)
(***************************************************************************)
EXTENDS Integers, Sequences

CONSTANTS
  Models,        \* of each version of the price table, the price of each id
  Aliases,       \* the names it has aliases for, and their ids
  HighContext,   \* CODEX_HIGH_CONTEXT_TOKENS
  NoModel        \* no vendor, no id, and the name that is empty or <synthetic>

\* The prefixes normalize knows, with their vendors; hy3 is known in full only.
VendorOf(n) ==
  CASE n.prefix = "claude" -> "anthropic"
    [] n.prefix \in {"gpt", "chatgpt", "o"} -> "openai"
    [] n.prefix = "gemini" -> "google"
    [] n.prefix = "grok" -> "x-ai"
    [] n.prefix \in {"qwen", "deepseek"} -> n.prefix
    [] n.prefix = "glm" -> "z-ai"
    [] n.prefix = "mimo" -> "xiaomi"
    [] n.prefix = "hy3" /\ n.rest \in {"", "preview"} -> "tencent"
    [] OTHER -> NoModel

Id(vendor, prefix, rest, version) ==
  [vendor |-> vendor, prefix |-> prefix, rest |-> rest, version |-> version]

\* The family's representatives, in the order they are tried.
Family == <<
  <<"opus", Id("anthropic", "claude", "opus", "4.8")>>,
  <<"sonnet", Id("anthropic", "claude", "sonnet", "4.6")>>,
  <<"haiku", Id("anthropic", "claude", "haiku", "4.5")>>,
  <<"gpt-5", Id("openai", "gpt", "", "5.5")>>,
  <<"qwen", Id("qwen", "qwen", "max", "3.7")>>,
  <<"deepseek", Id("deepseek", "deepseek", "pro", "4")>>,
  <<"glm", Id("z-ai", "glm", "", "5")>>,
  <<"mimo", Id("xiaomi", "mimo", "pro", "2.5")>>,
  <<"hy3", Id("tencent", "hy3", "", "")>> >>

GeminiPro == Id("google", "gemini", "pro-preview", "3.1")
GeminiFlash == Id("google", "gemini", "flash", "3.5")

\* The free tier is priced as the paid one; a dashed version of a claude model is
\* dotted, unless the name has its vendor already.
FixClaudeVersion(n) == IF n.prefix = "claude" /\ n.dashed # "" THEN n.dashed ELSE n.version

Normalize(n) ==
  IF n.vendor # NoModel THEN Id(n.vendor, n.prefix, n.rest, n.version)
  ELSE Id(VendorOf(n), n.prefix, n.rest, FixClaudeVersion(n))

ResolveId(table, n, provider) ==
  LET norm == Normalize(n)
      kin  == SelectSeq(Family, LAMBDA f : f[1] \in n.words)
  IN  CASE n \in DOMAIN Aliases -> Aliases[n]
        [] n \notin DOMAIN Aliases /\ norm \in DOMAIN table -> norm
        [] OTHER -> IF "gemini" \in n.words
                    THEN IF "pro" \in n.words THEN GeminiPro ELSE GeminiFlash
                    ELSE IF kin # <<>> THEN Head(kin)[2]
                    ELSE IF provider = "codex" THEN Family[4][2]
                    ELSE Family[1][2]

\* cost_micros of one request with the given version of the table.  Codex pays
\* more for a long context, cached part included, and nothing for cache writes.
CostMicros(version, provider, n, t) ==
  LET table == Models[version]
      id    == ResolveId(table, n, provider)
      price == table[id]
      high  == t.input + t.cacheRead > HighContext
  IN  IF n = NoModel \/ id \notin DOMAIN table THEN 0
      ELSE IF provider = "codex"
      THEN (IF high THEN 2 ELSE 1) * (t.input * price.input + t.cacheRead * price.cacheRead)
           + t.output * (IF high THEN 3 * (price.output \div 2) ELSE price.output)
      ELSE t.input * price.input + t.output * price.output
           + t.cacheRead * price.cacheRead + t.cacheWrite * price.cacheWrite
=============================================================================
