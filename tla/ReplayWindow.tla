----------------------------- MODULE ReplayWindow -----------------------------
(***************************************************************************)
(* What the anti-replay filter of package replay promises: a counter is    *)
(* accepted at most once between two resets, every fresh counter is        *)
(* accepted unless it is over the limit or more than Window behind the     *)
(* highest counter accepted so far, and nothing else is accepted.          *)
(***************************************************************************)
EXTENDS Naturals

CONSTANTS Window,  \* how far behind a counter may be
          Limit,   \* counters that are not below it are rejected
          Counter  \* the counters that packets carry

VARIABLES last,     \* the highest counter accepted, or 0
          accepted, \* the counters accepted since the last reset
          verdict   \* the answer to the last question

vars == <<last, accepted, verdict>>

Init == last = 0 /\ accepted = {} /\ verdict = FALSE

Reset == last' = 0 /\ accepted' = {} /\ UNCHANGED verdict

Fresh(c) == c < Limit /\ last <= c + Window /\ c \notin accepted

Accept(c) ==
    /\ Fresh(c)
    /\ accepted' = accepted \cup {c}
    /\ last' = IF c > last THEN c ELSE last
    /\ verdict' = TRUE

Reject(c) ==
    /\ ~Fresh(c)
    /\ verdict' = FALSE
    /\ UNCHANGED <<last, accepted>>

Next == Reset \/ \E c \in Counter : Accept(c) \/ Reject(c)

Spec == Init /\ [][Next]_vars
===============================================================================
