------------------------------ MODULE MCProgram ------------------------------
(* The instance of Program that TLC checks. *)
EXTENDS Program, TLC

CONSTANTS p1, p2

Both(a, b) == (p1 :> a) @@ (p2 :> b)
MCBuilds == {Both(1, 1), Both(1, 2)}

\* Two rows' models: one has an alias, the other is in neither table and falls to
\* its family; the second version of the table doubles a price of that family's.
Name(prefix, words) ==
  [vendor |-> NoModel, prefix |-> prefix, rest |-> "", version |-> "", dashed |-> "", words |-> words]
Codex == Name("gpt", {"gpt-5"})
Claude == Name("claude", {"opus"})
Tokens(i, o, r, w) == [input |-> i, output |-> o, cacheRead |-> r, cacheWrite |-> w]
MCAliases == Codex :> GeminiPro
Table(price) ==
  (GeminiPro :> Tokens(10, 60, 1, 9)) @@ (Family[1][2] :> Tokens(price, 50, 1, 12))
MCModels == <<Table(10), Table(20)>>
MCRequest == [r \in Row |->
  IF r = "other" THEN [provider |-> "codex", model |-> Codex, tokens |-> Tokens(2, 1, 1, 1)]
                 ELSE [provider |-> "codebuddy", model |-> Claude, tokens |-> Tokens(1, 1, 0, 1)]]

\* A calendar of short months in which day 13, a Saturday, is the last of a leap year,
\* one day longer than the report's 15.
MCMonthStarts == {-18, -9, -2, 6, 14, 22, 29}
MCYearStarts == {-18, -2, 14, 29}
MCEarlyUses == {<<-2, 0>>, <<11, 0>>, <<12, 0>>}
=============================================================================
