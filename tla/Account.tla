------------------------------ MODULE Account ------------------------------
(***************************************************************************)
(* What elyzor promises about the accounts and sessions of its users,      *)
(* without databases, caches, clocks or calls.  Clients present what they  *)
(* hold: a password, a refresh token or an access token.  What they        *)
(* present is accepted or refused once, an accepted password or refresh    *)
(* token opens one session, and an answer says what has ended.             *)
(***************************************************************************)
CONSTANTS
  User, Refresh, Access,
  UserOf, HolderOf,   \* whose a refresh token is, and an access token
  Req, None

VARIABLES
  accounts,  \* users who have registered
  life,      \* refresh tokens: "unissued" | "active" | "revoked" | "expired"
  expired,   \* access tokens past their lifetime
  leaky,     \* access tokens that a logout failed to bar
  sent,      \* refresh tokens told to a client
  signed,    \* access tokens told to a client
  ended,     \* refresh tokens whose end was told to a client
  out,       \* access tokens whose logout was told to a client
  asked      \* requests in progress

Guarded == {"request", "logout", "logoutAll"}

NoRequest == [by |-> None, user |-> None, token |-> None, access |-> None, new |-> None,
              late |-> FALSE, held |-> {}, state |-> "none"]

Init ==
  /\ accounts = {} /\ expired = {} /\ leaky = {}
  /\ life = [t \in Refresh |-> "unissued"]
  /\ sent = {} /\ signed = {} /\ ended = {} /\ out = {}
  /\ asked = [r \in Req |-> NoRequest]

Held(u) == {t \in sent : UserOf[t] = u}

Presenting(by, user, token, access, late, held) ==
  [by |-> by, user |-> user, token |-> token, access |-> access, new |-> None,
   late |-> late, held |-> held, state |-> "asked"]

Puts(r, q) == asked' = [asked EXCEPT ![r] = q]

\* What is presented: a password, a refresh token, or an access token.
Ask(r) ==
  /\ asked[r].state = "none"
  /\ \/ \E by \in {"register", "login"}, u \in User :
          Puts(r, Presenting(by, u, None, None, FALSE, {}))
     \/ \E t \in sent :
          Puts(r, Presenting("refresh", UserOf[t], t, None, t \in ended, Held(UserOf[t])))
     \/ \E by \in Guarded, a \in signed \ expired, t \in sent \cup {None} :
          Puts(r, Presenting(by, HolderOf[a], t, a, a \in out,
                             IF by = "logoutAll" THEN Held(HolderOf[a]) ELSE {}))

\* The one decision about what r presents.  A logged-out access token that did not leak, and
\* a refresh token that has ended, are refused to whoever comes after that was told.
Acceptable(q) ==
  /\ q.by = "register" => q.user \notin accounts
  /\ q.by = "login" => q.user \in accounts
  /\ q.by = "refresh" => life[q.token] = "active" /\ ~q.late
  /\ q.by \in Guarded /\ q.late => q.access \in leaky \cup expired

Decide(r, state) ==
  /\ asked[r].state = "asked"
  /\ asked' = [asked EXCEPT ![r].state = state]

\* Accepting a registration creates the account.
Accept(r) ==
  /\ Acceptable(asked[r]) /\ Decide(r, "accepted")
  /\ accounts' = IF asked[r].by = "register" THEN accounts \cup {asked[r].user} ELSE accounts

\* A revoked refresh token is taken for stolen.
Refuse(r) ==
  /\ asked[r].by = "refresh" /\ life[asked[r].token] = "revoked"
  /\ Decide(r, "refused")

\* One session for what was accepted; a refresh has lost the token it presented by then.
Open(r, t) ==
  /\ asked[r].state = "accepted" /\ asked[r].by \in {"register", "login", "refresh"}
  /\ asked[r].by = "refresh" => life[asked[r].token] # "active"
  /\ UserOf[t] = asked[r].user
  /\ asked' = [asked EXCEPT ![r].state = "opened", ![r].new = t]

\* r ends t: the token it came with, or all of its user.
Ends(r, t) ==
  LET q == asked[r]
  IN  \/ q.state = "accepted" /\ q.by \in {"refresh", "logout"} /\ q.token = t
      \/ q.state = "accepted" /\ q.by = "logoutAll" /\ q.user = UserOf[t]
      \/ q.state = "refused" /\ q.user = UserOf[t]

\* The answer tells what has ended: the token presented, or all that the user's clients held
\* when they asked; and hands out what was opened.
Answer(r) ==
  LET q == asked[r]
      told == IF q.state = "refused" \/ q.by = "logoutAll" THEN q.held ELSE {q.token} \ {None}
  IN  /\ \/ q.state \in {"opened", "refused"}
         \/ q.state = "accepted" /\ q.by \in {"logout", "logoutAll"}
      /\ \A t \in told : life[t] \in {"revoked", "expired"}
      /\ ended' = ended \cup told
      /\ sent' = sent \cup ({q.new} \ {None})
      /\ IF q.state = "opened" THEN \E a \in Access : HolderOf[a] = q.user /\ signed' = signed \cup {a}
                               ELSE signed' = signed
      /\ out' = IF q.by \in {"logout", "logoutAll"} THEN out \cup {q.access} ELSE out
      /\ asked' = [asked EXCEPT ![r] = NoRequest]

\* A refusal, a response of no interest here, or none at all.
Forget(r) ==
  /\ asked[r].state # "none"
  /\ asked' = [asked EXCEPT ![r] = NoRequest]

\* Tokens move forward: they open in Open, and end by a request that ends them or by age.  A
\* token whose logout was told to somebody does not begin to leak.
Live ==
  /\ \A t \in Refresh : life'[t] # life[t] =>
       \/ life[t] = "unissued" /\ life'[t] = "active" /\ \E r \in Req : Open(r, t)
       \/ life[t] = "active" /\ life'[t] = "revoked" /\ \E r \in Req : Ends(r, t)
       \/ life[t] \in {"active", "revoked"} /\ life'[t] = "expired"
  /\ expired \subseteq expired'
  /\ out \cap leaky' \subseteq leaky

clients == <<sent, signed, ended, out>>

Next ==
  /\ Live
  /\ \/ UNCHANGED <<accounts, clients, asked>>
     \/ \E r \in Req : Accept(r) /\ UNCHANGED clients
     \/ \E r \in Req : Answer(r) /\ UNCHANGED accounts
     \/ /\ \E r \in Req : \/ Ask(r) \/ Refuse(r) \/ Forget(r)
                          \/ \E t \in Refresh : Open(r, t) /\ life[t] = "unissued" /\ life'[t] = "active"
        /\ UNCHANGED <<accounts, clients>>

vars == <<accounts, life, expired, leaky, clients, asked>>

Spec == Init /\ [][Next]_vars
=============================================================================
