--------------------------- MODULE MCUrlShortener ---------------------------
(***************************************************************************)
(* Two POSTs racing for codes, p1 with a TTL of one time unit, and a GET.  *)
(* In a mix of two codes one DELETE comes too, of either code; in a mix of *)
(* two DELETEs everybody is about the same code.                           *)
(***************************************************************************)
EXTENDS UrlShortenerProofs

CONSTANTS c1, c2, p1, p2, d1, d2, g1

VARIABLE mix    \* which requests come in this behaviour

MCTimeToLive == [r \in Shortens |-> IF r = p1 THEN 1 ELSE Never]

MCVars == <<vars, mix>>

MCInit == Init /\ mix \in {"two codes", "two deletes"}

\* What becomes of the requests is up to the service; which codes they are
\* about, and whether d2 comes at all, is up to the mix.
Mixed ==
    CASE mix = "two codes"   -> pc'[d2] = "arriving"
      [] mix = "two deletes" -> \A r \in Requests : pc'[r] # "arriving" => code'[r] = c1

MCNext == Next /\ Mixed /\ UNCHANGED mix

\* All requests that came are answered.
MCDone ==
    /\ \A r \in Requests \ {d2} : pc[r] = "answered"
    /\ mix = "two codes"
    /\ UNCHANGED MCVars

\* The service's fairness, within the mix.
MCSpec ==
    /\ MCInit
    /\ [][MCNext \/ MCDone]_MCVars
    /\ \A r \in Shortens : WF_vars(ShortenStep(r) /\ Mixed)
    /\ \A r \in Resolves : WF_vars(ResolveStep(r) /\ Mixed)
    /\ \A r \in Deactivates : WF_vars(DeactivateStep(r) /\ Mixed)

=============================================================================
