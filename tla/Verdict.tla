------------------------------- MODULE Verdict -------------------------------
(***************************************************************************)
(* What elyzor promises about the credentials it verifies, without caches, *)
(* databases or handlers.  A credential is issued, ends, and dies; between *)
(* its end and its death it may still be answered valid, but to somebody   *)
(* who asks after the end was confirmed only if it ended stale.  Whether a *)
(* credential ends stale is settled when it ends and not by later events.  *)
(***************************************************************************)
CONSTANTS Cred, Req, None

VARIABLES
  life,       \* "unissued" | "active" | "ended" | "dead"
  stale,      \* credentials that ended stale
  confirmed,  \* credentials whose end was confirmed to the client
  asked       \* questions in progress

vars == <<life, stale, confirmed, asked>>

NoQuestion == [cred |-> None, late |-> FALSE, verdict |-> "none"]

Init ==
  /\ life = [c \in Cred |-> "unissued"]
  /\ stale = {} /\ confirmed = {}
  /\ asked = [r \in Req |-> NoQuestion]

Forward == {<<"unissued", "active">>, <<"active", "ended">>, <<"active", "dead">>,
            <<"ended", "dead">>}

\* Credentials move forward, several at once when their project is deleted; only those
\* that end in this very step may end stale.
Live ==
  /\ \A c \in Cred : life'[c] # life[c] => <<life[c], life'[c]>> \in Forward
  /\ \A c \in stale' \ stale : life[c] = "active" /\ life'[c] # "active"
  /\ stale \subseteq stale'

\* The client is told that c has ended.
Confirm(c) ==
  /\ life[c] \in {"ended", "dead"}
  /\ confirmed' = confirmed \cup {c}

Ask(r, c) ==
  /\ asked[r].cred = None /\ life[c] # "unissued"
  /\ asked' = [asked EXCEPT ![r] = [cred |-> c, late |-> c \in confirmed, verdict |-> "none"]]

\* A verdict; "success" is the answer valid: true.
Answer(r, verdict) ==
  /\ asked[r].cred # None /\ asked[r].verdict = "none"
  /\ verdict = "success" => /\ life[asked[r].cred] \in {"active", "ended"}
                            /\ asked[r].late => asked[r].cred \in stale
  /\ asked' = [asked EXCEPT ![r] = [asked[r] EXCEPT !.verdict = verdict]]

Forget(r) == asked[r].cred # None /\ asked' = [asked EXCEPT ![r] = NoQuestion]

Next ==
  /\ Live
  /\ \/ UNCHANGED confirmed
     \/ \E c \in Cred : Confirm(c)
  /\ \/ UNCHANGED asked
     \/ \E r \in Req : \/ \E c \in Cred : Ask(r, c)
                       \/ \E verdict \in {"success", "rate_limited", "revoked"} : Answer(r, verdict)
                       \/ Forget(r)

Spec == Init /\ [][Next]_vars

\* What ends dies.
EndsDie == \A c \in Cred : life[c] = "ended" ~> life[c] = "dead"
=============================================================================
