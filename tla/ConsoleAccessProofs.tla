------------------------- MODULE ConsoleAccessProofs -------------------------
(***************************************************************************)
(* Machine-checked proofs about ConsoleAccess, for any people, accounts,   *)
(* tokens and threads and any failures: the two stores lose no update, and *)
(* no call gets through on an account that an answer has called disabled   *)
(* or deleted.                                                             *)
(***************************************************************************)
EXTENDS ConsoleAccess, TLAPS

\* What a thread has read under the lock is what the stores hold.
CopiesAreCurrent ==
  \A w \in Threads : at[w] = "read" => copy[w] = tokens /\ book[w] = accounts

\* A thread knows what it was asked for.
RequestsMakeSense ==
  \A w \in Threads :
    /\ op[w] \in AccountOps => subject[w] \in Accounts
    /\ op[w] \in TokenOps => subject[w] \in Holders
    /\ op[w] = "revoke" => token[w] \in Tokens
    /\ at[w] \in {"found", "granted"} => op[w] = "call" /\ token[w] \in Tokens
    /\ at[w] = "written" => op[w] = "delete" /\ accounts[subject[w]] = "gone"

\* A new token belongs to one request and to nobody else yet.
NewTokensAreNew ==
  \A w \in Threads : op[w] = "issue" =>
    /\ token[w] \in Tokens /\ holder[token[w]] = Nobody
    /\ \A v \in Threads \ {w} : op[v] = "issue" => token[v] # token[w]

Issued == {t \in Tokens : holder[t] # Nobody}
EndedWereIssued == ended \subseteq Issued

\* An account that an answer has called off is off in the store.
OffIsStored == \A a \in off : accounts[a] \in {"disabled", "gone"}

AccessInv == /\ AccessTypeOK /\ CopiesAreCurrent /\ RequestsMakeSense /\ NewTokensAreNew
             /\ EndedWereIssued /\ LiveTokensFollowAnswers /\ OffIsStored

LEMMA AccessInvInit == Init => AccessInv
BY AccessFaults
   DEF Init, Fresh, AccessInv, AccessTypeOK, CopiesAreCurrent, RequestsMakeSense, NewTokensAreNew,
       EndedWereIssued, Issued, LiveTokensFollowAnswers, Live, OffIsStored, States, NoToken,
       AccountOps, TokenOps, Holders

LEMMA AskKeepsInv ==
  ASSUME AccessInv,
         NEW w \in Threads, NEW o \in AccountOps \cup TokenOps, NEW h \in Holders,
         NEW t \in Tokens \cup {NoToken}, Ask(w, o, h, t)
  PROVE  AccessInv'
<1> USE AccessFaults
    DEF AccessInv, Ask, storeVars, AccessTypeOK, CopiesAreCurrent, RequestsMakeSense,
        NewTokensAreNew, EndedWereIssued, Issued, LiveTokensFollowAnswers, Live, OffIsStored,
        States, NoToken, AccountOps, TokenOps, Holders
<1>1. AccessTypeOK' BY SMT
<1>2. CopiesAreCurrent' BY SMT
<1>3. RequestsMakeSense' BY SMT
<1>4. NewTokensAreNew' BY SMT
<1>5. (EndedWereIssued /\ LiveTokensFollowAnswers /\ OffIsStored)' BY SMT
<1> QED BY <1>1, <1>2, <1>3, <1>4, <1>5

LEMMA ReadKeepsInv ==
  ASSUME AccessInv, NEW w \in Threads, Read(w)
  PROVE  AccessInv'
<1> USE AccessFaults
    DEF AccessInv, Read, Fresh, storeVars, AccessTypeOK, CopiesAreCurrent,
        RequestsMakeSense, NewTokensAreNew, EndedWereIssued, Issued, LiveTokensFollowAnswers,
        Live, OffIsStored, States, NoToken, AccountOps, TokenOps, Holders
<1>1. AccessTypeOK' BY SMT
<1>2. CopiesAreCurrent' BY SMT
<1>3. RequestsMakeSense' BY SMT
<1>4. NewTokensAreNew' BY SMT
<1>5. EndedWereIssued' BY SMT
<1>6. LiveTokensFollowAnswers' BY SMT
<1>7. OffIsStored' BY SMT
<1> QED BY <1>1, <1>2, <1>3, <1>4, <1>5, <1>6, <1>7

LEMMA RefuseKeepsInv ==
  ASSUME AccessInv, NEW w \in Threads, Refuse(w)
  PROVE  AccessInv'
<1> USE AccessFaults
    DEF AccessInv, Refuse, Finish, Fresh, Allowed, storeVars, AccessTypeOK, CopiesAreCurrent,
        RequestsMakeSense, NewTokensAreNew, EndedWereIssued, Issued, LiveTokensFollowAnswers,
        Live, OffIsStored, States, NoToken, AccountOps, TokenOps, Holders
<1>1. AccessTypeOK' BY SMT
<1>2. CopiesAreCurrent' BY SMT
<1>3. RequestsMakeSense' BY SMT
<1>4. NewTokensAreNew' BY SMT
<1>5. EndedWereIssued' BY SMT
<1>6. LiveTokensFollowAnswers' BY SMT
<1>7. OffIsStored' BY SMT
<1> QED BY <1>1, <1>2, <1>3, <1>4, <1>5, <1>6, <1>7

LEMMA IssueTokenKeepsInv ==
  ASSUME AccessInv, NEW w \in Threads, IssueToken(w)
  PROVE  AccessInv'
<1> USE AccessFaults
    DEF AccessInv, IssueToken, WriteTokens, Finish, Fresh, Allowed, storeVars, AccessTypeOK, CopiesAreCurrent,
        RequestsMakeSense, NewTokensAreNew, EndedWereIssued, Issued, LiveTokensFollowAnswers,
        Live, OffIsStored, States, NoToken, AccountOps, TokenOps, Holders
<1>1. AccessTypeOK' BY SMT
<1>2. CopiesAreCurrent' BY SMT
<1>3. RequestsMakeSense' BY SMT
<1>4. NewTokensAreNew' BY SMT
<1>5. EndedWereIssued' BY SMT
<1>6. LiveTokensFollowAnswers' BY SMT
<1>7. OffIsStored' BY SMT
<1> QED BY <1>1, <1>2, <1>3, <1>4, <1>5, <1>6, <1>7

LEMMA RevokeTokenKeepsInv ==
  ASSUME AccessInv, NEW w \in Threads, RevokeToken(w)
  PROVE  AccessInv'
<1> USE AccessFaults
    DEF AccessInv, RevokeToken, WriteTokens, Finish, Fresh, Allowed, storeVars, AccessTypeOK, CopiesAreCurrent,
        RequestsMakeSense, NewTokensAreNew, EndedWereIssued, Issued, LiveTokensFollowAnswers,
        Live, OffIsStored, States, NoToken, AccountOps, TokenOps, Holders
<1>1. AccessTypeOK' BY SMT
<1>2. CopiesAreCurrent' BY SMT
<1>3. RequestsMakeSense' BY SMT
<1>4. NewTokensAreNew' BY SMT
<1>5. EndedWereIssued' BY SMT
<1>6. LiveTokensFollowAnswers' BY SMT
<1>7. OffIsStored' BY SMT
<1> QED BY <1>1, <1>2, <1>3, <1>4, <1>5, <1>6, <1>7

LEMMA RefuseSignInKeepsInv ==
  ASSUME AccessInv, NEW w \in Threads, RefuseSignIn(w)
  PROVE  AccessInv'
<1> USE AccessFaults
    DEF AccessInv, RefuseSignIn, WriteTokens, Finish, Fresh, HeldBy, storeVars, AccessTypeOK, CopiesAreCurrent,
        RequestsMakeSense, NewTokensAreNew, EndedWereIssued, Issued, LiveTokensFollowAnswers,
        Live, OffIsStored, States, NoToken, AccountOps, TokenOps, Holders
<1>1. AccessTypeOK' BY SMT
<1>2. CopiesAreCurrent' BY SMT
<1>3. RequestsMakeSense' BY SMT
<1>4. NewTokensAreNew' BY SMT
<1>5. EndedWereIssued' BY SMT
<1>6. LiveTokensFollowAnswers' BY SMT
<1>7. OffIsStored' BY SMT
<1> QED BY <1>1, <1>2, <1>3, <1>4, <1>5, <1>6, <1>7

LEMMA RefreshTokensKeepsInv ==
  ASSUME AccessInv, NEW w \in Threads, RefreshTokens(w)
  PROVE  AccessInv'
<1> USE AccessFaults
    DEF AccessInv, RefreshTokens, WriteTokens, Finish, Fresh, HeldBy, storeVars, AccessTypeOK, CopiesAreCurrent,
        RequestsMakeSense, NewTokensAreNew, EndedWereIssued, Issued, LiveTokensFollowAnswers,
        Live, OffIsStored, States, NoToken, AccountOps, TokenOps, Holders
<1>1. AccessTypeOK' BY SMT
<1>2. CopiesAreCurrent' BY SMT
<1>3. RequestsMakeSense' BY SMT
<1>4. NewTokensAreNew' BY SMT
<1>5. EndedWereIssued' BY SMT
<1>6. LiveTokensFollowAnswers' BY SMT
<1>7. OffIsStored' BY SMT
<1> QED BY <1>1, <1>2, <1>3, <1>4, <1>5, <1>6, <1>7

LEMMA CreateAccountKeepsInv ==
  ASSUME AccessInv, NEW w \in Threads, CreateAccount(w)
  PROVE  AccessInv'
<1> USE AccessFaults
    DEF AccessInv, CreateAccount, WriteAccount, Finish, Fresh, Allowed, storeVars, AccessTypeOK, CopiesAreCurrent,
        RequestsMakeSense, NewTokensAreNew, EndedWereIssued, Issued, LiveTokensFollowAnswers,
        Live, OffIsStored, States, NoToken, AccountOps, TokenOps, Holders
<1>1. AccessTypeOK' BY SMT
<1>2. CopiesAreCurrent' BY SMT
<1>3. RequestsMakeSense' BY SMT
<1>4. NewTokensAreNew' BY SMT
<1>5. EndedWereIssued' BY SMT
<1>6. LiveTokensFollowAnswers' BY SMT
<1>7. OffIsStored' BY SMT
<1> QED BY <1>1, <1>2, <1>3, <1>4, <1>5, <1>6, <1>7

LEMMA SetAccountStateKeepsInv ==
  ASSUME AccessInv, NEW w \in Threads, SetAccountState(w)
  PROVE  AccessInv'
<1> USE AccessFaults
    DEF AccessInv, SetAccountState, WriteAccount, Finish, Fresh, Allowed, storeVars, AccessTypeOK, CopiesAreCurrent,
        RequestsMakeSense, NewTokensAreNew, EndedWereIssued, Issued, LiveTokensFollowAnswers,
        Live, OffIsStored, States, NoToken, AccountOps, TokenOps, Holders
<1>1. AccessTypeOK'
  <2>1. CASE op[w] = "enable"
    BY <2>1, SMT
  <2>2. CASE op[w] = "disable"
    BY <2>2, SMT
  <2> QED BY <2>1, <2>2
<1>2. CopiesAreCurrent' BY SMT
<1>3. RequestsMakeSense' BY SMT
<1>4. NewTokensAreNew' BY SMT
<1>5. EndedWereIssued' BY SMT
<1>6. LiveTokensFollowAnswers' BY SMT
<1>7. OffIsStored' BY SMT
<1> QED BY <1>1, <1>2, <1>3, <1>4, <1>5, <1>6, <1>7

LEMMA DeleteAccountKeepsInv ==
  ASSUME AccessInv, NEW w \in Threads, DeleteAccount(w)
  PROVE  AccessInv'
<1> USE AccessFaults
    DEF AccessInv, DeleteAccount, WriteAccount, Allowed, Fresh, storeVars, AccessTypeOK, CopiesAreCurrent,
        RequestsMakeSense, NewTokensAreNew, EndedWereIssued, Issued, LiveTokensFollowAnswers,
        Live, OffIsStored, States, NoToken, AccountOps, TokenOps, Holders
<1>1. AccessTypeOK' BY SMT
<1>2. CopiesAreCurrent' BY SMT
<1>3. RequestsMakeSense' BY SMT
<1>4. NewTokensAreNew' BY SMT
<1>5. EndedWereIssued' BY SMT
<1>6. LiveTokensFollowAnswers' BY SMT
<1>7. OffIsStored' BY SMT
<1> QED BY <1>1, <1>2, <1>3, <1>4, <1>5, <1>6, <1>7

LEMMA DeleteTokensKeepsInv ==
  ASSUME AccessInv, NEW w \in Threads, DeleteTokens(w)
  PROVE  AccessInv'
<1> USE AccessFaults
    DEF AccessInv, DeleteTokens, Finish, Fresh, HeldBy, storeVars, AccessTypeOK, CopiesAreCurrent,
        RequestsMakeSense, NewTokensAreNew, EndedWereIssued, Issued, LiveTokensFollowAnswers,
        Live, OffIsStored, States, NoToken, AccountOps, TokenOps, Holders
<1>1. AccessTypeOK' BY SMT
<1>2. CopiesAreCurrent' BY SMT
<1>3. RequestsMakeSense' BY SMT
<1>4. NewTokensAreNew' BY SMT
<1>5. EndedWereIssued' BY SMT
<1>6. LiveTokensFollowAnswers' BY SMT
<1>7. OffIsStored' BY SMT
<1> QED BY <1>1, <1>2, <1>3, <1>4, <1>5, <1>6, <1>7

LEMMA CheckAccountKeepsInv ==
  ASSUME AccessInv, NEW w \in Threads, CheckAccount(w)
  PROVE  AccessInv'
<1> USE AccessFaults
    DEF AccessInv, CheckAccount, storeVars, AccessTypeOK, CopiesAreCurrent,
        RequestsMakeSense, NewTokensAreNew, EndedWereIssued, Issued, LiveTokensFollowAnswers,
        Live, OffIsStored, States, NoToken, AccountOps, TokenOps, Holders
<1>1. AccessTypeOK'
  <2>1. at' \in [Threads -> {"idle", "asked", "read", "written", "found", "granted", "denied"}]
    BY SMT
  <2> QED BY <2>1, SMT
<1>2. CopiesAreCurrent' BY SMT
<1>3. RequestsMakeSense' BY SMT
<1>4. NewTokensAreNew' BY SMT
<1>5. EndedWereIssued' BY SMT
<1>6. LiveTokensFollowAnswers' BY SMT
<1>7. OffIsStored' BY SMT
<1> QED BY <1>1, <1>2, <1>3, <1>4, <1>5, <1>6, <1>7

LEMMA AnswerKeepsInv ==
  ASSUME AccessInv, NEW w \in Threads, Answer(w)
  PROVE  AccessInv'
<1> USE AccessFaults
    DEF AccessInv, Answer, Finish, Fresh, storeVars, AccessTypeOK, CopiesAreCurrent,
        RequestsMakeSense, NewTokensAreNew, EndedWereIssued, Issued, LiveTokensFollowAnswers,
        Live, OffIsStored, States, NoToken, AccountOps, TokenOps, Holders
<1>1. AccessTypeOK' BY SMT
<1>2. CopiesAreCurrent' BY SMT
<1>3. RequestsMakeSense' BY SMT
<1>4. NewTokensAreNew' BY SMT
<1>5. EndedWereIssued' BY SMT
<1>6. LiveTokensFollowAnswers' BY SMT
<1>7. OffIsStored' BY SMT
<1> QED BY <1>1, <1>2, <1>3, <1>4, <1>5, <1>6, <1>7

LEMMA SurroundingsKeepInv ==
  ASSUME AccessInv,
         \/ \E w \in Threads, t \in Tokens : Call(w, t)
         \/ \E t \in Tokens : Expire(t)
         \/ ConsoleStops
         \/ UNCHANGED vars
  PROVE  AccessInv'
<1> USE AccessFaults
    DEF AccessInv, storeVars, threadVars, AccessTypeOK, CopiesAreCurrent, RequestsMakeSense,
        NewTokensAreNew, EndedWereIssued, Issued, LiveTokensFollowAnswers, Live, OffIsStored,
        States, NoToken, AccountOps, TokenOps, Holders
<1>1. ASSUME NEW w \in Threads, NEW t \in Tokens, Call(w, t)
      PROVE  AccessInv'
  <2> USE <1>1 DEF Call
  <2>1. (AccessTypeOK /\ CopiesAreCurrent /\ OffIsStored)' BY SMT
  <2>2. (RequestsMakeSense /\ NewTokensAreNew)' BY SMT
  <2>3. (EndedWereIssued /\ LiveTokensFollowAnswers)' BY SMT
  <2> QED BY <2>1, <2>2, <2>3
<1>2. ASSUME NEW t \in Tokens, Expire(t)
      PROVE  AccessInv'
  BY <1>2 DEF Expire
<1>3. CASE ConsoleStops
  BY <1>3 DEF ConsoleStops, Fresh
<1>4. CASE UNCHANGED vars
  BY <1>4 DEF vars
<1> QED BY <1>1, <1>2, <1>3, <1>4

LEMMA StepKeepsInv ==
  ASSUME AccessInv, [Next]_vars
  PROVE  AccessInv'
<1>1. ASSUME NEW w \in Threads, Step(w)
      PROVE  AccessInv'
  BY <1>1, ReadKeepsInv, RefuseKeepsInv, IssueTokenKeepsInv, RevokeTokenKeepsInv,
     RefuseSignInKeepsInv, RefreshTokensKeepsInv, CreateAccountKeepsInv,
     SetAccountStateKeepsInv, DeleteAccountKeepsInv, DeleteTokensKeepsInv,
     CheckAccountKeepsInv, AnswerKeepsInv DEF Step
<1> QED BY <1>1, AskKeepsInv, SurroundingsKeepInv DEF Next

LEMMA AccessInvariant == Spec => []AccessInv
BY AccessInvInit, StepKeepsInv, PTL DEF Spec

\* Requests and stores are well formed, and a thread between its reading and its
\* last write holds the lock.
THEOREM AccessTypeCorrect == Spec => []AccessTypeOK
<1>1. AccessInv => AccessTypeOK
  BY DEF AccessInv
<1> QED BY AccessInvariant, <1>1, PTL

\* No request brings back a token that another one has revoked, or drops one that
\* another one has issued.
THEOREM TokenStoreLosesNothing == Spec => []LiveTokensFollowAnswers
<1>1. AccessInv => LiveTokensFollowAnswers
  BY DEF AccessInv
<1> QED BY AccessInvariant, <1>1, PTL

\* No call is granted and no token issued on an account that an answer has called
\* off: the account is off in the store, and calls and issues look there.
THEOREM AccountsStayOff == Spec => AccountAnswersHold
<1> DEFINE Granted == \A w \in Threads :
                        at[w] = "found" /\ at'[w] = "granted" => holder[token[w]] \notin off
           IssuedOn == \A t \in Tokens : holder[t] # holder'[t] => holder'[t] \notin off
<1>1. ASSUME AccessInv, [Next]_vars
      PROVE  Granted
  <2> SUFFICES ASSUME NEW w \in Threads, at[w] = "found", at'[w] = "granted"
               PROVE  holder[token[w]] \notin off
    OBVIOUS
  <2> USE <1>1 DEF AccessInv, AccessTypeOK
  <2>1. CheckAccount(w)
    <3>1. ASSUME NEW v \in Threads, Step(v)
          PROVE  v = w /\ CheckAccount(v)
      <4>1. at[v] = "found" \/ at'[v] # "granted"
        BY <3>1 DEF Step, Read, Refuse, WriteTokens, IssueToken, RevokeToken, RefuseSignIn,
              RefreshTokens, WriteAccount, CreateAccount, SetAccountState, DeleteAccount,
              DeleteTokens, Answer, CheckAccount, Finish
      <4>2. v # w => at'[w] = at[w]
        BY <3>1 DEF Step, Read, Refuse, WriteTokens, IssueToken, RevokeToken, RefuseSignIn,
              RefreshTokens, WriteAccount, CreateAccount, SetAccountState, DeleteAccount,
              DeleteTokens, Answer, CheckAccount, Finish
      <4> QED BY <3>1, <4>1, <4>2
          DEF Step, Read, Refuse, WriteTokens, IssueToken, RevokeToken, RefuseSignIn,
              RefreshTokens, WriteAccount, CreateAccount, SetAccountState, DeleteAccount,
              DeleteTokens, Answer, Finish
    <3>2. ~(\E v \in Threads, t \in Tokens : Call(v, t))
      BY DEF Call
    <3>3. ~(\E v \in Threads, o \in AccountOps \cup TokenOps, h \in Holders,
               t \in Tokens \cup {NoToken} : Ask(v, o, h, t))
      BY DEF Ask
    <3>4. ~(\E t \in Tokens : Expire(t)) /\ ~ConsoleStops /\ ~UNCHANGED vars
      BY DEF Expire, ConsoleStops, vars, threadVars
    <3> QED BY <3>1, <3>2, <3>3, <3>4 DEF Next
  <2> QED BY <1>1, <2>1, AccessFaults
          DEF CheckAccount, AccessInv, AccessTypeOK, OffIsStored, RequestsMakeSense, Holders
<1>2. ASSUME AccessInv, [Next]_vars
      PROVE  IssuedOn
  <2> SUFFICES ASSUME NEW t \in Tokens, holder[t] # holder'[t]
               PROVE  holder'[t] \notin off
    OBVIOUS
  <2>1. PICK w \in Threads : IssueToken(w)
    <3>1. ASSUME NEW v \in Threads, Step(v)
          PROVE  IssueToken(v)
      BY <3>1 DEF Step, Read, Refuse, RevokeToken, RefuseSignIn, RefreshTokens, WriteAccount,
            CreateAccount, SetAccountState, DeleteAccount, DeleteTokens, Answer, CheckAccount,
            storeVars
    <3>2. ~(\E v \in Threads, u \in Tokens : Call(v, u))
      BY DEF Call, storeVars
    <3>3. ~(\E v \in Threads, o \in AccountOps \cup TokenOps, h \in Holders,
               u \in Tokens \cup {NoToken} : Ask(v, o, h, u))
      BY DEF Ask, storeVars
    <3>4. ~(\E u \in Tokens : Expire(u)) /\ ~ConsoleStops /\ ~UNCHANGED vars
      BY DEF Expire, ConsoleStops, vars, storeVars
    <3> QED BY <1>2, <3>1, <3>2, <3>3, <3>4 DEF Next
  <2> QED BY <1>2, <2>1, AccessFaults
          DEF IssueToken, WriteTokens, Allowed, AccessInv, AccessTypeOK, OffIsStored,
              CopiesAreCurrent, RequestsMakeSense, NewTokensAreNew, Holders, TokenOps
<1>3. AccessInv /\ [Next]_vars => [Granted /\ IssuedOn]_vars
  BY <1>1, <1>2
<1> QED BY AccessInvariant, <1>3, PTL DEF Spec, AccountAnswersHold
=============================================================================
