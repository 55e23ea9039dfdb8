---------------------------- MODULE ConsoleAccess ----------------------------
(***************************************************************************)
(* API tokens of people and of service accounts (ui/app.py): two files,    *)
(* the token store and the account store, that request threads of several  *)
(* workers read and replace under one lock, and that every API call with a *)
(* token reads without it, first the tokens and then the accounts.         *)
(*                                                                         *)
(* A token belongs to a holder, a person or an account.  Ids of tokens and *)
(* accounts are random, so none is ever given out twice.                   *)
(***************************************************************************)
EXTENDS Naturals, FiniteSets

CONSTANTS People,    \* people who sign in through the provider
          Accounts,  \* ids of service accounts
          Tokens,    \* ids of tokens
          Threads,   \* threads that serve requests
          Nobody,    \* no thread, or no holder
          Faults     \* which failures may happen, see Failures

Failures == {"store", \* a store cannot be read or written
             "stop"}  \* the console container stops

Holders == People \cup Accounts

ASSUME AccessFaults == Faults \subseteq Failures /\ Nobody \notin Threads \cup Holders
                       /\ People \cap Accounts = {}

VARIABLES
  tokens,   \* api-tokens.json
  holder,   \* whose a token is, Nobody before it is issued
  expired,  \* tokens whose time is over
  accounts, \* service-accounts.json; "gone" is an account that was deleted
  lock,     \* the thread that holds .api-tokens.lock
  at,       \* where each thread is
  op,       \* what it was asked for
  subject,  \* the holder it is about
  token,    \* the token it is about
  copy,     \* the tokens it has read
  book,     \* the accounts it has read
  ended,    \* tokens that an answer called revoked or deleted; not in the code
  off       \* accounts that an answer called disabled or deleted; not in the code

storeVars == <<tokens, holder, expired, accounts>>
threadVars == <<at, op, subject, token, copy, book>>
vars == <<storeVars, lock, threadVars, ended, off>>

States == {"new", "enabled", "disabled", "gone"}
AccountOps == {"create", "enable", "disable", "delete"}
TokenOps == {"issue", "revoke", "refuse", "refresh"}
NoToken == Nobody

AccessTypeOK ==
  /\ tokens \subseteq Tokens /\ expired \subseteq Tokens
  /\ holder \in [Tokens -> Holders \cup {Nobody}]
  /\ \A t \in tokens : holder[t] # Nobody
  /\ accounts \in [Accounts -> States]
  /\ lock \in Threads \cup {Nobody}
  /\ at \in [Threads -> {"idle", "asked", "read", "written", "found", "granted", "denied"}]
  /\ op \in [Threads -> AccountOps \cup TokenOps \cup {"none", "call"}]
  /\ subject \in [Threads -> Holders \cup {Nobody}]
  /\ token \in [Threads -> Tokens \cup {NoToken}]
  /\ copy \in [Threads -> SUBSET Tokens] /\ book \in [Threads -> [Accounts -> States]]
  /\ ended \subseteq Tokens /\ off \subseteq Accounts
  /\ \A w \in Threads : at[w] \in {"read", "written"} => lock = w

Fresh == [a \in Accounts |-> "new"]

Init ==
  /\ tokens = {} /\ holder = [t \in Tokens |-> Nobody] /\ expired = {}
  /\ accounts = Fresh /\ lock = Nobody
  /\ at = [w \in Threads |-> "idle"] /\ op = [w \in Threads |-> "none"]
  /\ subject = [w \in Threads |-> Nobody] /\ token = [w \in Threads |-> NoToken]
  /\ copy = [w \in Threads |-> {}] /\ book = [w \in Threads |-> Fresh]
  /\ ended = {} /\ off = {}

HeldBy(h, S) == {t \in S : holder[t] = h}

-----------------------------------------------------------------------------
(* Requests that change a store.                                           *)

\* A request is checked before the lock: who asks, and what the body says.
Ask(w, o, h, t) ==
  /\ at[w] = "idle"
  /\ o \in AccountOps => h \in Accounts
  /\ o \in {"refuse", "refresh"} => h \in People
  /\ IF o = "revoke" THEN t # NoToken /\ holder[t] = h
     ELSE IF o = "issue" THEN t # NoToken /\ holder[t] = Nobody /\ \A v \in Threads : token[v] # t
     ELSE t = NoToken
  /\ at' = [at EXCEPT ![w] = "asked"] /\ op' = [op EXCEPT ![w] = o]
  /\ subject' = [subject EXCEPT ![w] = h] /\ token' = [token EXCEPT ![w] = t]
  /\ UNCHANGED <<storeVars, lock, copy, book, ended, off>>

\* As if the refresh after a sign-in did without the lock.
ReadUnlocked(w) ==
  /\ at[w] = "asked" /\ (lock = Nobody \/ op[w] = "refresh")
  /\ lock' = IF op[w] = "refresh" THEN lock ELSE w
  /\ at' = [at EXCEPT ![w] = "read"]
  /\ copy' = [copy EXCEPT ![w] = tokens] /\ book' = [book EXCEPT ![w] = accounts]
  /\ UNCHANGED <<storeVars, op, subject, token, ended, off>>

\* Under the lock the stores are read.
Read(w) ==
  /\ at[w] = "asked" /\ lock = Nobody
  /\ lock' = w /\ at' = [at EXCEPT ![w] = "read"]
  /\ copy' = [copy EXCEPT ![w] = tokens] /\ book' = [book EXCEPT ![w] = accounts]
  /\ UNCHANGED <<storeVars, op, subject, token, ended, off>>

\* As if an account were found without its state.
AllowedWhenKnown(w) ==
  LET a == subject[w]
  IN /\ op[w] = "create" => book[w][a] = "new"
     /\ op[w] = "issue" /\ a \in Accounts => book[w][a] # "new"
     /\ op[w] = "revoke" => token[w] \in copy[w]

\* What the request needs to find in what it has read.
Allowed(w) ==
  LET a == subject[w]
  IN /\ op[w] = "create" => book[w][a] = "new"
     /\ op[w] \in {"enable", "disable", "delete"} => book[w][a] \in {"enabled", "disabled"}
     /\ op[w] = "issue" /\ a \in Accounts => book[w][a] = "enabled"
     /\ op[w] = "revoke" => token[w] \in copy[w]

\* The request ends and its locals are gone.
Finish(w) ==
  /\ at' = [at EXCEPT ![w] = "idle"] /\ op' = [op EXCEPT ![w] = "none"]
  /\ subject' = [subject EXCEPT ![w] = Nobody] /\ token' = [token EXCEPT ![w] = NoToken]
  /\ copy' = [copy EXCEPT ![w] = {}] /\ book' = [book EXCEPT ![w] = Fresh]
  /\ lock' = IF lock = w THEN Nobody ELSE lock

\* An error: nothing more is written.
Refuse(w) ==
  /\ at[w] \in {"read", "written"}
  /\ ~Allowed(w) \/ "store" \in Faults
  /\ Finish(w) /\ UNCHANGED <<storeVars, ended, off>>

\* _write_api_tokens keeps what has not expired.
Live(S) == S \ expired

\* The store becomes S, if that differs from what was read, and the answer follows.
WriteTokens(w, differs, S) ==
  /\ at[w] = "read" /\ Allowed(w)
  /\ tokens' = IF differs THEN Live(S) ELSE tokens
  /\ Finish(w) /\ UNCHANGED <<expired, accounts, off>>

IssueToken(w) ==
  /\ op[w] = "issue" /\ WriteTokens(w, TRUE, copy[w] \cup {token[w]})
  /\ holder' = [holder EXCEPT ![token[w]] = subject[w]]
  /\ UNCHANGED ended

RevokeToken(w) ==
  /\ op[w] = "revoke" /\ WriteTokens(w, TRUE, copy[w] \ {token[w]})
  /\ ended' = ended \cup {token[w]}
  /\ UNCHANGED holder

\* A sign-in of a person without a role takes the tokens of the person away.
RefuseSignIn(w) ==
  /\ op[w] = "refuse"
  /\ LET mine == HeldBy(subject[w], copy[w])
     IN /\ WriteTokens(w, mine # {}, copy[w] \ mine)
        /\ ended' = ended \cup mine
  /\ UNCHANGED holder

\* Another sign-in writes the name and the role into them.
RefreshTokens(w) ==
  /\ op[w] = "refresh" /\ WriteTokens(w, HeldBy(subject[w], copy[w]) # {}, copy[w])
  /\ UNCHANGED <<holder, ended>>

\* _write_service_accounts.
WriteAccount(w, state) ==
  /\ at[w] = "read" /\ Allowed(w)
  /\ accounts' = [book[w] EXCEPT ![subject[w]] = state]
  /\ UNCHANGED <<tokens, holder, expired, ended>>

CreateAccount(w) ==
  /\ op[w] = "create" /\ WriteAccount(w, "enabled")
  /\ Finish(w) /\ UNCHANGED off

SetAccountState(w) ==
  /\ \/ op[w] = "enable" /\ WriteAccount(w, "enabled") /\ off' = off \ {subject[w]}
     \/ op[w] = "disable" /\ WriteAccount(w, "disabled") /\ off' = off \cup {subject[w]}
  /\ Finish(w)

\* As if every store had a lock of its own.
DeleteAccountAlone(w) ==
  /\ op[w] = "delete" /\ WriteAccount(w, "gone")
  /\ at' = [at EXCEPT ![w] = "written"] /\ lock' = Nobody
  /\ UNCHANGED <<op, subject, token, copy, book, off>>

\* A deletion goes on to the tokens, which it reads only then.
DeleteAccount(w) ==
  /\ op[w] = "delete" /\ WriteAccount(w, "gone")
  /\ at' = [at EXCEPT ![w] = "written"]
  /\ UNCHANGED <<lock, op, subject, token, copy, book, off>>

DeleteTokens(w) ==
  /\ at[w] = "written"
  /\ LET held == HeldBy(subject[w], tokens)
     IN tokens' = IF held = {} THEN tokens ELSE Live(tokens \ held)
  /\ ended' = ended \cup HeldBy(subject[w], Tokens) /\ off' = off \cup {subject[w]}
  /\ Finish(w) /\ UNCHANGED <<holder, expired, accounts>>

-----------------------------------------------------------------------------
(* Calls with a token.                                                     *)

\* A call finds the token in the store, or is refused there.
Call(w, t) ==
  /\ at[w] = "idle" /\ holder[t] # Nobody
  /\ at' = [at EXCEPT ![w] = IF t \in Live(tokens) THEN "found" ELSE "denied"]
  /\ op' = [op EXCEPT ![w] = "call"] /\ token' = [token EXCEPT ![w] = t]
  /\ UNCHANGED <<storeVars, lock, subject, copy, book, ended, off>>

\* As if the token alone decided.
CheckTokenOnly(w) ==
  /\ at[w] = "found" /\ at' = [at EXCEPT ![w] = "granted"]
  /\ UNCHANGED <<storeVars, lock, op, subject, token, copy, book, ended, off>>

\* _active_service_account; a store that cannot be read refuses.
CheckAccount(w) ==
  /\ at[w] = "found"
  /\ \/ /\ holder[token[w]] \in Accounts => accounts[holder[token[w]]] = "enabled"
        /\ at' = [at EXCEPT ![w] = "granted"]
     \/ /\ holder[token[w]] \in Accounts
        /\ accounts[holder[token[w]]] # "enabled" \/ "store" \in Faults
        /\ at' = [at EXCEPT ![w] = "denied"]
  /\ UNCHANGED <<storeVars, lock, op, subject, token, copy, book, ended, off>>

Answer(w) ==
  /\ at[w] \in {"granted", "denied"}
  /\ Finish(w) /\ UNCHANGED <<storeVars, ended, off>>

-----------------------------------------------------------------------------
(* Time and failures.                                                      *)

Expire(t) ==
  /\ t \in tokens \ expired
  /\ expired' = expired \cup {t}
  /\ UNCHANGED <<tokens, holder, accounts, lock, threadVars, ended, off>>

\* Every thread is gone and the lock with it; the files stay.
ConsoleStops ==
  /\ "stop" \in Faults /\ \E w \in Threads : at[w] # "idle"
  /\ at' = [w \in Threads |-> "idle"] /\ op' = [w \in Threads |-> "none"]
  /\ subject' = [w \in Threads |-> Nobody] /\ token' = [w \in Threads |-> NoToken]
  /\ copy' = [w \in Threads |-> {}] /\ book' = [w \in Threads |-> Fresh]
  /\ lock' = Nobody
  /\ UNCHANGED <<storeVars, ended, off>>

Step(w) == \/ Read(w) \/ Refuse(w) \/ Answer(w) \/ CheckAccount(w)
           \/ IssueToken(w) \/ RevokeToken(w) \/ RefuseSignIn(w) \/ RefreshTokens(w)
           \/ CreateAccount(w) \/ SetAccountState(w) \/ DeleteAccount(w) \/ DeleteTokens(w)

Next ==
  \/ \E w \in Threads :
       \/ Step(w)
       \/ \E t \in Tokens : Call(w, t)
       \/ \E o \in AccountOps \cup TokenOps, h \in Holders, t \in Tokens \cup {NoToken} : Ask(w, o, h, t)
  \/ \E t \in Tokens : Expire(t)
  \/ ConsoleStops

Spec == Init /\ [][Next]_vars

-----------------------------------------------------------------------------
(* Properties.                                                             *)

\* The tokens that work are those that were issued and that no answer has called
\* revoked or deleted since: no request writes back a store that it read before
\* another one changed it, nor drops what another one has added
\* (app.py:1151-1171, 2895-2928, 3086-3091, 3123-3156).
LiveTokensFollowAnswers ==
  Live(tokens) = Live({t \in Tokens : holder[t] # Nobody} \ ended)

\* What an answer said of an account holds, also between the two writes of a
\* deletion and when one of them failed: from then on no call with one of its
\* tokens is granted and none is issued to it, until it is enabled again
\* (app.py:1133-1148, 3071-3093, 3123-3132).
AccountAnswersHold ==
  [][/\ \A w \in Threads : at[w] = "found" /\ at'[w] = "granted" => holder[token[w]] \notin off
     /\ \A t \in Tokens : holder[t] # holder'[t] => holder'[t] \notin off]_vars
=============================================================================
