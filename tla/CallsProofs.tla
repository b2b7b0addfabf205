---------------------------- MODULE CallsProofs ----------------------------
(***************************************************************************)
(* Theorems about Calls, for every set of users, pages and calls.          *)
(***************************************************************************)
EXTENDS Calls, FiniteSetTheorems, SequenceTheorems, TLAPS

-----------------------------------------------------------------------------
\* Messages and the connections that carry them.

\* SetToSeq lists a finite set: each element once, and nothing else.
LEMMA Listed ==
  ASSUME NEW S, IsFiniteSet(S)
  PROVE  SetToSeq(S) \in Seq(S) /\ Sent(SetToSeq(S)) = S
  <1> DEFINE n == Cardinality(S)
             f == SetToSeq(S)
  <1>1. n \in Nat /\ ExistsBijection(1..n, S)
    BY FS_CardinalityType
  <1>2. PICK g \in Bijection(1..n, S) : TRUE
    BY <1>1 DEF ExistsBijection
  <1>3. g \in [1..n -> S] /\ IsInjective(g)
    BY <1>2 DEF Bijection, Injection, IsInjective
  <1>4. f \in [1..n -> S] /\ IsInjective(f)
    BY <1>3 DEF SetToSeq
  <1>5. f \in Injection(1..n, S)
    BY <1>4 DEF Injection
  <1>6. IsFiniteSet(1..n) /\ Cardinality(1..n) = n
    BY <1>1, FS_Interval
  <1>7. f \in Surjection(1..n, S)
    BY <1>5, <1>6, FS_Injection
  <1>8. f \in Seq(S)
    BY <1>1, <1>4 DEF Seq
  <1>9. {f[i] : i \in 1..n} = S
    BY <1>4, <1>7 DEF Surjection
  <1> HIDE DEF f
  <1>10. Sent(f) = S
    BY <1>4, <1>9 DEF Sent
  <1> QED
    BY <1>8, <1>10 DEF f

\* What is sent next follows what is under way.
LEMMA Extended ==
  ASSUME NEW M, NEW s \in Seq(M), NEW t \in Seq(M)
  PROVE  /\ s \o t \in Seq(M)
         /\ Sent(s \o t) = Sent(s) \cup Sent(t)
         /\ \A i \in DOMAIN s : i \in DOMAIN (s \o t) /\ (s \o t)[i] = s[i]
         /\ \A i \in DOMAIN (s \o t) : i \in DOMAIN s \/ (s \o t)[i] \in Sent(t)
         /\ \A m \in Sent(t) : \E j \in DOMAIN (s \o t) :
              (s \o t)[j] = m /\ \A i \in DOMAIN s : j > i
  <1> DEFINE u == s \o t
  <1>1. Len(s) \in Nat /\ Len(t) \in Nat /\ DOMAIN s = 1..Len(s) /\ DOMAIN t = 1..Len(t)
    BY LenProperties
  <1>2. /\ u \in Seq(M)
        /\ Len(u) = Len(s) + Len(t)
        /\ \A i \in 1..(Len(s) + Len(t)) : u[i] = IF i <= Len(s) THEN s[i] ELSE t[i - Len(s)]
    BY ConcatProperties
  <1>3. DOMAIN u = 1..(Len(s) + Len(t))
    BY <1>2, LenProperties
  <1> HIDE DEF u
  <1>4. \A i \in DOMAIN s : i \in DOMAIN u /\ u[i] = s[i]
    BY <1>1, <1>2, <1>3
  <1>5. \A i \in DOMAIN t : /\ Len(s) + i \in DOMAIN u
                            /\ u[Len(s) + i] = t[i]
                            /\ \A h \in DOMAIN s : Len(s) + i > h
    <2> SUFFICES ASSUME NEW i \in DOMAIN t
                 PROVE  /\ Len(s) + i \in DOMAIN u
                        /\ u[Len(s) + i] = t[i]
                        /\ \A h \in DOMAIN s : Len(s) + i > h
      OBVIOUS
    <2>1. i \in 1..Len(t) /\ Len(s) + i \in 1..(Len(s) + Len(t)) /\ ~(Len(s) + i <= Len(s))
          /\ (Len(s) + i) - Len(s) = i
      BY <1>1
    <2> QED
      BY <1>1, <1>2, <1>3, <2>1
  <1>6. \A i \in DOMAIN u : i \in DOMAIN s \/ (i - Len(s) \in DOMAIN t /\ u[i] = t[i - Len(s)])
    BY <1>1, <1>2, <1>3
  <1>7. Sent(u) = Sent(s) \cup Sent(t)
    BY <1>4, <1>5, <1>6 DEF Sent
  <1>8. \A i \in DOMAIN u : i \in DOMAIN s \/ u[i] \in Sent(t)
    BY <1>6 DEF Sent
  <1>9. \A m \in Sent(t) : \E j \in DOMAIN u : u[j] = m /\ \A i \in DOMAIN s : j > i
    BY <1>5 DEF Sent
  <1> QED
    BY <1>2, <1>4, <1>7, <1>8, <1>9 DEF u

LEMMA Appended ==
  ASSUME NEW M, NEW s \in Seq(M), NEW m \in M
  PROVE  /\ <<m>> \in Seq(M) /\ Sent(<<m>>) = {m}
         /\ Append(s, m) = s \o <<m>>
  <1>1. <<m>> \in Seq(M) /\ Len(<<m>>) = 1 /\ <<m>>[1] = m
    OBVIOUS
  <1>2. DOMAIN <<m>> = {1}
    <2>1. DOMAIN <<m>> = 1..1
      BY <1>1, LenProperties
    <2> QED
      BY <2>1
  <1>3. Sent(<<m>>) = {m}
    BY <1>1, <1>2 DEF Sent
  <1> QED
    BY <1>1, <1>3, AppendIsConcat

LEMMA Silence ==
  ASSUME NEW M, NEW s \in Seq(M)
  PROVE  <<>> \in Seq(M) /\ Sent(<<>>) = {} /\ s = s \o <<>>
  BY ConcatEmptySeq, EmptySeq DEF Sent

\* What is left after the first message.
LEMMA Rest ==
  ASSUME NEW M, NEW s \in Seq(M), s # <<>>
  PROVE  /\ Tail(s) \in Seq(M) /\ Head(s) \in M /\ Head(s) = s[1] /\ 1 \in DOMAIN s
         /\ \A i \in DOMAIN Tail(s) : i + 1 \in DOMAIN s /\ Tail(s)[i] = s[i + 1]
         /\ \A i \in DOMAIN s \ {1} : i - 1 \in DOMAIN Tail(s) /\ Tail(s)[i - 1] = s[i]
         /\ DOMAIN s \subseteq Int /\ DOMAIN Tail(s) \subseteq Int
  <1>1. /\ Head(s) \in M /\ Tail(s) \in Seq(M) /\ Len(Tail(s)) = Len(s) - 1
        /\ \A i \in 1..Len(Tail(s)) : Tail(s)[i] = s[i + 1]
    BY HeadTailProperties
  <1>2. Len(s) \in Nat \ {0} /\ DOMAIN s = 1..Len(s) /\ DOMAIN Tail(s) = 1..Len(Tail(s))
    BY <1>1, LenProperties, EmptySeq
  <1>3. Head(s) = s[1]
    BY DEF Head
  <1>4. \A i \in DOMAIN Tail(s) : i + 1 \in DOMAIN s /\ Tail(s)[i] = s[i + 1]
    BY <1>1, <1>2
  <1>5. ASSUME NEW i \in DOMAIN s \ {1}
        PROVE  i - 1 \in DOMAIN Tail(s) /\ Tail(s)[i - 1] = s[i]
    <2>1. i - 1 \in 1..Len(Tail(s)) /\ (i - 1) + 1 = i
      BY <1>1, <1>2
    <2> QED
      BY <1>1, <1>2, <2>1
  <1> QED
    BY <1>1, <1>2, <1>3, <1>4, <1>5
-----------------------------------------------------------------------------
(* The calls themselves: pendingCalls, its timers, and who has answered.   *)

\* A call that is not ringing yet has no answer, and only those it rings answer it:
\* the strengthening TimersMatch needs, with as much of the typing.
Unanswered == \A k \in Call :
  call[k].stage \in {"free", "sent", "member", "leader", "party", "user"}
    => call[k].responded = {}

Invited == \A k \in Call : call[k].responded \subseteq call[k].members

CallsTyped == call \in [Call -> CallState] /\ armed \in SUBSET Call

\* Only so many calls ring at a time, however many were ever started.
FewRing == IsFiniteSet(armed)

Inv == CallsTyped /\ Unanswered /\ Invited /\ FewRing /\ TimersMatch

\* What no step undoes: an ended call stays as it ended, the members of a ringing
\* one are settled, a response is not taken back.
GoesOn == \A k \in Call :
  /\ call[k].stage = "over" => call'[k].stage = "over" /\ call'[k].responded = call[k].responded
  /\ call[k].stage = "pending" => call'[k].stage \in {"pending", "over"}
  /\ call[k].stage \in {"pending", "over"} => call'[k].members = call[k].members
  /\ call[k].responded \subseteq call'[k].responded

\* Any subset of the armed calls is finite.
LEMMA FewEnd ==
  ASSUME FewRing, NEW ended
  PROVE  IsFiniteSet(armed \ ended)
  BY FS_Subset DEF FewRing

\* Ending calls keeps the timers in step with pendingCalls.
LEMMA EndKeeps ==
  ASSUME Inv, NEW ended \in SUBSET Call, NEW missed, EndCalls(ended, missed)
  PROVE  /\ Inv' /\ GoesOn
         /\ Pending' = Pending \ ended
         /\ \A k \in Call : /\ call'[k].members = call[k].members
                            /\ call'[k].responded = call[k].responded
                            /\ call'[k].stage = IF k \in ended THEN "over" ELSE call[k].stage
  <1>1. \A k \in Call : call'[k] = IF k \in ended THEN [call[k] EXCEPT !.stage = "over"]
                                   ELSE call[k]
    BY DEF EndCalls
  <1>2. ASSUME NEW k \in Call
        PROVE  /\ call'[k] \in CallState
               /\ call'[k].members = call[k].members
               /\ call'[k].responded = call[k].responded
               /\ call'[k].stage = IF k \in ended THEN "over" ELSE call[k].stage
    BY <1>1 DEF Inv, CallsTyped, CallState, Stage
  <1>3. CallsTyped'
    BY <1>2 DEF EndCalls, Inv, CallsTyped
  <1>4. Unanswered' /\ Invited' /\ GoesOn
    BY <1>2 DEF Inv, Unanswered, Invited, GoesOn
  <1>5. armed' = armed \ ended /\ Pending' = Pending \ ended
    BY <1>2 DEF EndCalls, Pending
  <1>6. FewRing'
    BY <1>5, FewEnd DEF Inv, FewRing
  <1> QED
    BY <1>2, <1>3, <1>4, <1>5, <1>6 DEF Inv, TimersMatch, Pending

\* So does a step of one call that does not ring yet and does not start to.
LEMMA StepKeeps ==
  ASSUME Inv, NEW k \in Call, call[k].stage \notin {"pending", "over"},
         call' \in [Call -> CallState], \A j \in Call \ {k} : call'[j] = call[j],
         call'[k].stage # "pending", call'[k].responded = {},
         UNCHANGED armed
  PROVE  Inv' /\ GoesOn /\ Pending' = Pending
  <1>1. CallsTyped' /\ FewRing'
    BY DEF Inv, CallsTyped, FewRing
  <1>2. Unanswered' /\ Invited'
    BY DEF Inv, Unanswered, Invited
  <1>3. Pending' = Pending
    BY DEF Pending
  <1>4. call[k].responded = {}
    BY DEF Inv, CallsTyped, CallState, Stage, Unanswered
  <1>5. GoesOn
    BY <1>4 DEF GoesOn
  <1> QED
    BY <1>1, <1>2, <1>3, <1>5 DEF Inv, TimersMatch, Pending

LEMMA StageStep ==
  ASSUME Inv, NEW k \in Call, call[k].stage \notin {"pending", "over"},
         NEW next \in Stage \ {"pending"}, Step(k, next), UNCHANGED armed
  PROVE  Inv' /\ GoesOn /\ Pending' = Pending
  <1>1. call[k] \in CallState
    BY DEF Inv, CallsTyped
  <1>2. call[k].responded = {}
    BY <1>1 DEF Inv, Unanswered, CallState, Stage
  <1>3. /\ [call[k] EXCEPT !.stage = next] \in CallState
        /\ [call[k] EXCEPT !.stage = next].stage = next
        /\ [call[k] EXCEPT !.stage = next].responded = call[k].responded
    BY <1>1 DEF CallState
  <1>4. /\ call' \in [Call -> CallState]
        /\ \A j \in Call \ {k} : call'[j] = call[j]
        /\ call'[k] = [call[k] EXCEPT !.stage = next]
    BY <1>3 DEF Step, Inv, CallsTyped
  <1> QED
    BY <1>2, <1>3, <1>4, StepKeeps

\* A step that leaves calls and timers alone.
LEMMA Still ==
  ASSUME Inv, UNCHANGED <<call, armed>>
  PROVE  Inv' /\ GoesOn /\ Pending' = Pending
  BY DEF Inv, CallsTyped, Unanswered, Invited, FewRing, TimersMatch, Pending, GoesOn

LEMMA Starts ==
  ASSUME Inv, NEW c \in Client, NEW k \in Call, NEW id \in OwnId, StartCall(c, k, id)
  PROVE  Inv' /\ GoesOn /\ Pending' = Pending
  <1> DEFINE new == [Free EXCEPT !.stage = "sent", !.caller = Owner[c], !.socket = c]
  <1>1. new \in CallState /\ new.stage = "sent" /\ new.responded = {}
    BY OwnerAssumption DEF Free, CallState, Stage
  <1>2. call' = [call EXCEPT ![k] = new]
    BY DEF StartCall
  <1> HIDE DEF new
  <1> QED
    BY <1>1, <1>2, StepKeeps DEF StartCall, Inv, CallsTyped

LEMMA Unplugged ==
  ASSUME Inv, NEW c \in Client, Unplug(c)
  PROVE  Inv' /\ GoesOn /\ Pending' = Pending
  <1>1. \A k \in Call : /\ call[k] \in CallState
                        /\ call'[k] = IF call[k].socket = c THEN [call[k] EXCEPT !.socket = None]
                                      ELSE call[k]
    BY DEF Unplug, Inv, CallsTyped
  <1>2. ASSUME NEW k \in Call
        PROVE  /\ call'[k] \in CallState
               /\ call'[k].stage = call[k].stage
               /\ call'[k].members = call[k].members
               /\ call'[k].responded = call[k].responded
    BY <1>1 DEF CallState
  <1>3. CallsTyped' /\ FewRing'
    BY <1>2 DEF Unplug, Inv, CallsTyped, FewRing
  <1> QED
    BY <1>2, <1>3 DEF Unplug, Inv, Unanswered, Invited, TimersMatch, Pending, GoesOn

\* call:invite up to its last read: the call does not ring yet.
LEMMA InvitePrepared ==
  ASSUME Inv, \/ \E c \in Client : CallInvite(c)
              \/ \E k \in Call : InviteMember(k) \/ InviteLeader(k) \/ InviteParty(k)
  PROVE  Inv' /\ GoesOn /\ Pending' = Pending
  <1>1. ASSUME NEW c \in Client, CallInvite(c)
        PROVE  Inv' /\ GoesOn /\ Pending' = Pending
    <2>1. CASE Head(up[c]).call \in Call
      BY <1>1, <2>1, StageStep DEF CallInvite, Stage
    <2>2. CASE Head(up[c]).call \notin Call
      <3>1. UNCHANGED <<call, armed>>
        BY <1>1, <2>2 DEF CallInvite, Step, Inv, CallsTyped
      <3> QED
        BY <3>1, Still
    <2> QED
      BY <2>1, <2>2
  <1>2. ASSUME NEW k \in Call, InviteMember(k) \/ InviteLeader(k)
        PROVE  Inv' /\ GoesOn /\ Pending' = Pending
    BY <1>2, StageStep DEF InviteMember, InviteLeader, Stage
  <1>3. ASSUME NEW k \in Call, InviteParty(k)
        PROVE  Inv' /\ GoesOn /\ Pending' = Pending
    <2> DEFINE members == {u \in User : role[u] # "none"} \ {call[k].caller}
               new == [[call[k] EXCEPT !.stage = "user"] EXCEPT !.members = members]
    <2>1. call[k] \in CallState /\ call[k].responded = {}
      BY <1>3 DEF InviteParty, Inv, CallsTyped, Unanswered
    <2>2. members \in SUBSET User
      OBVIOUS
    <2> HIDE DEF members
    <2>3. new \in CallState /\ new.stage = "user" /\ new.responded = {}
      BY <2>1, <2>2 DEF CallState, Stage
    <2>4. /\ call'[k] = new
          /\ \A j \in Call \ {k} : call'[j] = call[j]
          /\ DOMAIN call' = Call /\ call' = [j \in Call |-> call'[j]]
      BY <1>3, <2>1 DEF InviteParty, Inv, CallsTyped, members
    <2> HIDE DEF new
    <2>5. call' \in [Call -> CallState]
      BY <2>3, <2>4 DEF Inv, CallsTyped
    <2> QED
      BY <1>3, <2>3, <2>4, <2>5, StepKeeps DEF InviteParty
  <1> QED
    BY <1>1, <1>2, <1>3

LEMMA Rings ==
  ASSUME Inv, NEW k \in Call, InviteRing(k)
  PROVE  /\ Inv' /\ GoesOn
         /\ call[k].members = {} => Pending' = Pending
         /\ call[k].members # {} => /\ Pending' = Pending \cup {k}
                                    /\ call'[k].members = call[k].members
  <1>1. CASE call[k].members = {}
    BY <1>1, StageStep DEF InviteRing, Stage
  <1>2. CASE call[k].members # {}
    <2>1. call[k] \in CallState /\ call[k].responded = {}
      BY DEF InviteRing, Inv, CallsTyped, Unanswered
    <2>2. Step(k, "pending") /\ armed' = armed \cup {k} /\ call[k].stage = "user"
      BY <1>2 DEF InviteRing
    <2>3. /\ call'[k] \in CallState
          /\ call'[k].stage = "pending"
          /\ call'[k].members = call[k].members
          /\ call'[k].responded = {}
          /\ \A j \in Call \ {k} : call'[j] = call[j]
      BY <2>1, <2>2 DEF Step, Inv, CallsTyped, CallState, Stage
    <2>4. CallsTyped'
      BY <2>2, <2>3 DEF Step, Inv, CallsTyped
    <2>5. Pending' = Pending \cup {k}
      BY <2>3 DEF Pending
    <2>6. Unanswered' /\ Invited'
      BY <2>3 DEF Inv, Unanswered, Invited
    <2>7. GoesOn
      BY <2>1, <2>2, <2>3 DEF GoesOn
    <2>8. FewRing'
      BY <2>2, FS_AddElement DEF Inv, FewRing
    <2>9. TimersMatch'
      BY <1>2, <2>2, <2>3, <2>5 DEF Inv, TimersMatch, Pending
    <2> QED
      BY <1>2, <2>3, <2>4, <2>5, <2>6, <2>7, <2>8, <2>9 DEF Inv
  <1> QED
    BY <1>1, <1>2

\* A response that counts ends the call only when everybody it rings has answered.
LEMMA Responds ==
  ASSUME Inv, NEW c \in Client, CallRespond(c)
  PROVE  /\ Inv' /\ GoesOn
         /\ \A k \in Pending \ Pending' : call[k].members \subseteq call'[k].responded
         /\ Pending' \subseteq Pending
  <1> DEFINE k == Head(up[c]).call
             answered == call[k].responded \cup {Owner[c]}
             all == Cardinality(answered) >= Cardinality(call[k].members)
  <1>1. CASE ~(k \in Pending /\ Owner[c] \in call[k].members)
    BY <1>1, Still DEF CallRespond
  <1>2. CASE k \in Pending /\ Owner[c] \in call[k].members
    <2>1. k \in Call /\ call[k] \in CallState /\ call[k].stage = "pending"
      BY <1>2 DEF Pending, Inv, CallsTyped
    <2>2. /\ call' = [call EXCEPT ![k].responded = answered,
                                  ![k].stage = IF all THEN "over" ELSE @]
          /\ armed' = IF all THEN armed \ {k} ELSE armed
      BY <1>2 DEF CallRespond
    <2>3. answered \in SUBSET User /\ answered \subseteq call[k].members
      BY <1>2, <2>1, OwnerAssumption DEF CallState, Inv, Invited
    <2>4. all <=> call[k].members \subseteq answered
      <3>1. IsFiniteSet(call[k].members)
        BY <2>1, UserAssumption, FS_Subset DEF CallState
      <3>2. /\ IsFiniteSet(answered)
            /\ Cardinality(answered) <= Cardinality(call[k].members)
            /\ Cardinality(call[k].members) = Cardinality(answered) => call[k].members = answered
        BY <2>3, <3>1, FS_Subset
      <3>3. Cardinality(call[k].members) \in Nat /\ Cardinality(answered) \in Nat
        BY <3>1, <3>2, FS_CardinalityType
      <3>4. call[k].members \subseteq answered => call[k].members = answered
        BY <2>3
      <3> HIDE DEF answered
      <3> QED
        BY <3>2, <3>3, <3>4
    <2> HIDE DEF answered, all
    <2>5. /\ call'[k] \in CallState
          /\ call'[k].stage = IF all THEN "over" ELSE "pending"
          /\ call'[k].members = call[k].members
          /\ call'[k].responded = answered
          /\ \A j \in Call \ {k} : call'[j] = call[j]
          /\ call' = [j \in Call |-> call'[j]]
      BY <2>1, <2>2, <2>3 DEF Inv, CallsTyped, CallState, Stage
    <2>6. CallsTyped'
      BY <2>2, <2>5 DEF Inv, CallsTyped
    <2>7. Pending' = IF all THEN Pending \ {k} ELSE Pending
      BY <2>1, <2>5 DEF Pending
    <2>8. Unanswered' /\ Invited'
      BY <2>3, <2>5 DEF Inv, Unanswered, Invited
    <2>9. FewRing'
      BY <2>2, FewEnd DEF Inv, FewRing
    <2>10. call[k].responded \subseteq answered
      BY DEF answered
    <2>11. GoesOn
      BY <2>1, <2>5, <2>10 DEF GoesOn
    <2>12. TimersMatch'
      BY <2>2, <2>4, <2>5, <2>7 DEF Inv, TimersMatch, Pending
    <2> QED
      BY <2>4, <2>5, <2>6, <2>7, <2>8, <2>9, <2>11, <2>12 DEF Inv
  <1> QED
    BY <1>1, <1>2

\* The three ways calls are ended for good: the caller has gone, he cancels, the
\* timer fires.
LEMMA Ends ==
  ASSUME Inv, \/ \E c \in Client : Sweep(c) \/ CallCancel(c)
              \/ \E k \in Call : Expire(k)
  PROVE  \E ended \in SUBSET Pending : \E missed \in SUBSET ended : EndCalls(ended, missed)
  <1>1. ASSUME NEW k \in Call, Expire(k)
        PROVE  k \in Pending /\ EndCalls({k}, {k})
    BY <1>1 DEF Expire, Inv, TimersMatch
  <1> QED
    BY <1>1 DEF Sweep, CallCancel

\* Which steps touch neither calls nor timers.
LEMMA Others ==
  ASSUME NEW c \in Client,
         \/ Answer(c) \/ CancelOutgoing(c) \/ Receive(c) \/ Connect(c) \/ Reject(c)
         \/ PartyChanges \/ UNCHANGED vars
  PROVE  UNCHANGED <<call, armed>>
  BY DEF Answer, CancelOutgoing, Receive, Connect, Reject, PartyChanges, server, vars

LEMMA CallSteps ==
  ASSUME Inv, [Next]_vars
  PROVE  Inv' /\ GoesOn
  <1>1. ASSUME NEW ended \in SUBSET Pending, NEW missed, EndCalls(ended, missed)
        PROVE  Inv' /\ GoesOn
    <2>1. ended \in SUBSET Call
      BY DEF Pending
    <2> QED
      BY <1>1, <2>1, EndKeeps
  <1>2. CASE PartyChanges \/ UNCHANGED vars
    BY <1>2, Still DEF PartyChanges, vars
  <1> QED
    BY <1>1, <1>2, Ends, Starts, Unplugged, InvitePrepared, Rings, Responds, Others, Still
       DEF Next, Serve, InviteSteps, Disconnect, SignOut

\* pendingCalls and the ring timers stay in step for good: whatever responses,
\* cancellations, expiries and lost connections race, no entry is left without
\* a timer, no timer without an entry, and none for a call everybody answered.
THEOREM Timers == Spec => []TimersMatch
<1>1. Init => Inv
  <2> SUFFICES ASSUME Init
               PROVE  Inv
    OBVIOUS
  <2>1. Free \in CallState /\ Free.stage = "free" /\ Free.responded = {}
    BY DEF Free, CallState, Stage
  <2>2. CallsTyped /\ Unanswered /\ Invited /\ FewRing
    BY <2>1, FS_EmptySet DEF Init, CallsTyped, Unanswered, Invited, FewRing, Free
  <2>3. TimersMatch
    BY <2>1 DEF Init, TimersMatch, Pending
  <2> QED
    BY <2>2, <2>3 DEF Inv
<1>2. Inv /\ [Next]_vars => Inv'
  BY CallSteps
<1> QED
  BY <1>1, <1>2, PTL DEF Spec, Inv

-----------------------------------------------------------------------------
(* What the pages hear of them.                                            *)

\* The server tells pages of calls of its own only, never of an id a page drew.
Told == [kind : {"incoming", "ringing", "responded", "cancelled", "missed"}, call : Call]
DownTyped == down \in [Client -> Seq(Told)]

SteadyOn == Steady \subseteq conn

Typed == Inv /\ TypeOK /\ DownTyped /\ SteadyOn

\* What reaches c in a step: a ring only as its call starts to ring him, a "missed"
\* only as its call ends with somebody still to answer; and if a call ends that rings
\* the user of a connected page, a cancellation, unless he has answered it.
Tells(c, t) ==
  /\ \A m \in Sent(t) :
       /\ m.kind = "incoming" => m.call \in Pending' /\ Owner[c] \in call'[m.call].members
       /\ m.kind = "missed" => /\ call'[m.call].stage = "over"
                               /\ call'[m.call].members \ call'[m.call].responded # {}
  /\ c \in conn => \A k \in Pending \ Pending' :
       Owner[c] \in call[k].members =>
         Owner[c] \in call'[k].responded \/ Msg("cancelled", k) \in Sent(t)

Delivery(c) == \E t \in Seq(Told) : down'[c] = down[c] \o t /\ Tells(c, t)

LEMMA Quiet ==
  ASSUME DownTyped, NEW c \in Client, down'[c] = down[c], Pending \subseteq Pending'
  PROVE  Delivery(c)
  <1>1. down[c] \in Seq(Told)
    BY DEF DownTyped
  <1>2. <<>> \in Seq(Told) /\ Sent(<<>>) = {} /\ down[c] = down[c] \o <<>>
    BY <1>1, Silence
  <1>3. Tells(c, <<>>)
    BY <1>2 DEF Tells
  <1> QED
    BY <1>2, <1>3 DEF Delivery

LEMMA OneMore ==
  ASSUME DownTyped, NEW c \in Client, NEW m \in Told, down'[c] = Append(down[c], m),
         Tells(c, <<m>>)
  PROVE  Delivery(c)
  <1>1. down[c] \in Seq(Told)
    BY DEF DownTyped
  <1> QED
    BY <1>1, Appended DEF Delivery

\* The messages of the calls that end are finitely many.
LEMMA FewMessages ==
  ASSUME NEW kind, NEW calls, IsFiniteSet(calls)
  PROVE  IsFiniteSet({Msg(kind, k) : k \in calls})
  <1> DEFINE S == {Msg(kind, k) : k \in calls}
             f == [k \in calls |-> Msg(kind, k)]
  <1>1. f \in Surjection(calls, S)
    BY DEF Surjection
  <1> QED
    BY <1>1, FS_Surjection

LEMMA EndDelivers ==
  ASSUME Inv, DownTyped, NEW ended \in SUBSET Pending, NEW missed \in SUBSET ended,
         EndCalls(ended, missed), NEW c \in Client
  PROVE  Delivery(c)
  <1>1. ended \in SUBSET Call
    BY DEF Pending
  <1>2. /\ Pending' = Pending \ ended
        /\ \A k \in Call : /\ call'[k].members = call[k].members
                           /\ call'[k].responded = call[k].responded
                           /\ call'[k].stage = IF k \in ended THEN "over" ELSE call[k].stage
    BY <1>1, EndKeeps
  <1> DEFINE told == {j \in ended : Owner[c] \in call[j].members}
             owed == {j \in missed : call[j].caller = Owner[c]}
             S == {Msg("cancelled", k) : k \in told} \cup {Msg("missed", k) : k \in owed}
             t == SetToSeq(S)
  <1>3. CASE c \notin conn
    <2>1. down'[c] = down[c]
      BY <1>3 DEF EndCalls
    <2>2. <<>> \in Seq(Told) /\ Sent(<<>>) = {} /\ down[c] = down[c] \o <<>>
      BY Silence DEF DownTyped
    <2>3. Tells(c, <<>>)
      BY <1>3, <2>2 DEF Tells
    <2> QED
      BY <2>1, <2>2, <2>3 DEF Delivery
  <1>4. CASE c \in conn
    <2>1. down'[c] = down[c] \o t
      BY <1>4 DEF EndCalls
    <2>2. IsFiniteSet(told) /\ IsFiniteSet(owed)
      <3>1. IsFiniteSet(Pending)
        BY DEF Inv, FewRing, TimersMatch
      <3>2. told \in SUBSET Pending /\ owed \in SUBSET Pending
        OBVIOUS
      <3> QED
        BY <3>1, <3>2, FS_Subset
    <2>3. IsFiniteSet(S)
      BY <2>2, FewMessages, FS_Union
    <2>4. S \subseteq Told
      BY <1>1 DEF Told, Msg
    <2>5. \A m \in S : /\ m.kind # "incoming"
                       /\ m.kind = "missed" => m.call \in missed
      BY DEF Msg
    <2>6. \A k \in Pending \ Pending' : Owner[c] \in call[k].members => Msg("cancelled", k) \in S
      BY <1>2
    <2>7. t \in Seq(S) /\ Sent(t) = S
      BY <2>3, Listed
    <2> HIDE DEF S, t
    <2>8. t \in Seq(Told)
      BY <2>4, <2>7, SeqMonotonic
    <2>9. \A k \in missed : call'[k].stage = "over" /\ call'[k].members \ call'[k].responded # {}
      BY <1>1, <1>2 DEF Inv, TimersMatch
    <2>10. Tells(c, t)
      BY <2>5, <2>6, <2>7, <2>9 DEF Tells
    <2> QED
      BY <2>1, <2>8, <2>10 DEF Delivery
  <1> QED
    BY <1>3, <1>4

LEMMA RingDelivers ==
  ASSUME Inv, DownTyped, NEW k \in Call, InviteRing(k), NEW c \in Client
  PROVE  Delivery(c)
  <1>1. CASE call[k].members = {}
    BY <1>1, Rings, Quiet DEF InviteRing
  <1>2. CASE call[k].members # {}
    <2>1. Pending' = Pending \cup {k} /\ call'[k].members = call[k].members
      BY <1>2, Rings
    <2>2. \/ Owner[c] \in call[k].members /\ down'[c] = Append(down[c], Msg("incoming", k))
          \/ down'[c] = Append(down[c], Msg("ringing", k))
          \/ down'[c] = down[c]
      BY <1>2 DEF InviteRing, Devices
    <2>3. Msg("incoming", k) \in Told /\ Msg("ringing", k) \in Told
      BY DEF Told, Msg
    <2>4. Sent(<<Msg("incoming", k)>>) = {Msg("incoming", k)}
          /\ Sent(<<Msg("ringing", k)>>) = {Msg("ringing", k)}
      BY <2>3, Appended, EmptySeq
    <2>5. /\ Owner[c] \in call[k].members => Tells(c, <<Msg("incoming", k)>>)
          /\ Tells(c, <<Msg("ringing", k)>>)
      BY <2>1, <2>4 DEF Tells, Msg
    <2> QED
      BY <2>1, <2>2, <2>3, <2>4, <2>5, OneMore, Quiet
  <1> QED
    BY <1>1, <1>2

LEMMA RespondDelivers ==
  ASSUME Inv, DownTyped, NEW d \in Client, CallRespond(d), NEW c \in Client
  PROVE  Delivery(c)
  <1> DEFINE k == Head(up[d]).call
  <1>1. CASE ~(k \in Pending /\ Owner[d] \in call[k].members)
    <2>1. UNCHANGED <<call, armed, down>>
      BY <1>1 DEF CallRespond
    <2> QED
      BY <2>1, Still, Quiet
  <1>2. CASE k \in Pending /\ Owner[d] \in call[k].members
    <2>1. /\ \A j \in Pending \ Pending' : call[j].members \subseteq call'[j].responded
          /\ Pending' \subseteq Pending
      BY Responds
    <2>2. Emit(Devices({call[k].caller}), Msg("responded", k))
      BY <1>2 DEF CallRespond
    <2>3. down'[c] = down[c] \/ down'[c] = Append(down[c], Msg("responded", k))
      BY <2>2 DEF Emit
    <2>4. Msg("responded", k) \in Told
      BY <1>2 DEF Told, Msg, Pending
    <2>5. <<>> \in Seq(Told) /\ Sent(<<>>) = {} /\ down[c] = down[c] \o <<>>
      BY Silence DEF DownTyped
    <2>6. Sent(<<Msg("responded", k)>>) = {Msg("responded", k)}
      BY <2>4, Appended, EmptySeq
    <2>7. \A j \in Pending \ Pending' : Owner[c] \in call[j].members =>
            Owner[c] \in call'[j].responded
      BY <2>1
    <2>8. Tells(c, <<>>)
      BY <2>5, <2>7 DEF Tells
    <2>9. Tells(c, <<Msg("responded", k)>>)
      BY <2>6, <2>7 DEF Tells, Msg
    <2> QED
      BY <2>3, <2>4, <2>5, <2>8, <2>9, OneMore DEF Delivery
  <1> QED
    BY <1>1, <1>2

\* What is under way to a page changes in three ways: it hears the first message,
\* its connection is lost, or the server sends more.
LEMMA Deliveries ==
  ASSUME Inv, DownTyped, [Next]_vars, NEW c \in Client
  PROVE  Delivery(c) \/ Receive(c) \/ Unplug(c)
  <1>1. ASSUME down'[c] = down[c], UNCHANGED <<call, armed>>
        PROVE  Delivery(c)
    BY <1>1, Still, Quiet
  <1>2. ASSUME NEW d \in Client, \/ Answer(d) \/ CancelOutgoing(d) \/ Connect(d) \/ Reject(d)
                                 \/ PartyChanges \/ UNCHANGED vars
        PROVE  Delivery(c)
    <2>1. UNCHANGED down
      BY <1>2 DEF Answer, CancelOutgoing, Connect, Reject, PartyChanges, vars, wires
    <2> QED
      BY <1>1, <1>2, <2>1, Others
  <1>3. ASSUME NEW d \in Client, Receive(d)
        PROVE  Delivery(c) \/ Receive(c)
    <2>1. d # c => down'[c] = down[c]
      BY <1>3 DEF Receive, DownTyped
    <2>2. UNCHANGED <<call, armed>>
      BY <1>3, Others
    <2> QED
      BY <1>1, <1>3, <2>1, <2>2
  <1>4. ASSUME NEW d \in Client, Unplug(d)
        PROVE  Delivery(c) \/ Unplug(c)
    <2>1. d # c => down'[c] = down[c]
      BY <1>4 DEF Unplug, DownTyped
    <2>2. Pending' = Pending
      BY <1>4, Unplugged
    <2> QED
      BY <1>4, <2>1, <2>2, Quiet
  <1>5. ASSUME NEW d \in Client, NEW k \in Call, NEW id \in OwnId, StartCall(d, k, id)
        PROVE  Delivery(c)
    <2>1. UNCHANGED down
      BY <1>5 DEF StartCall
    <2> QED
      BY <1>5, <2>1, Starts, Quiet
  <1>6. ASSUME \/ \E d \in Client : CallInvite(d)
               \/ \E k \in Call : InviteMember(k) \/ InviteLeader(k) \/ InviteParty(k)
        PROVE  Delivery(c)
    <2>1. UNCHANGED down
      BY <1>6 DEF CallInvite, InviteMember, InviteLeader, InviteParty, wires
    <2> QED
      BY <1>6, <2>1, InvitePrepared, Quiet
  <1>7. ASSUME \/ \E d \in Client : Sweep(d) \/ CallCancel(d)
               \/ \E k \in Call : Expire(k)
        PROVE  Delivery(c)
    BY <1>7, Ends, EndDelivers
  <1>8. CASE PartyChanges \/ UNCHANGED vars
    BY <1>2, <1>8
  <1> QED
    BY <1>2, <1>3, <1>4, <1>5, <1>6, <1>7, <1>8, RingDelivers, RespondDelivers
       DEF Next, Serve, InviteSteps, Disconnect, SignOut

LEMMA DownSteps ==
  ASSUME Inv, DownTyped, [Next]_vars
  PROVE  DownTyped'
  <1>1. ASSUME NEW c \in Client
        PROVE  down'[c] \in Seq(Told)
    <2>1. down[c] \in Seq(Told)
      BY DEF DownTyped
    <2>2. CASE Delivery(c)
      BY <2>1, <2>2, Extended DEF Delivery
    <2>3. CASE Receive(c)
      <3>1. down[c] # <<>> /\ down'[c] = Tail(down[c])
        BY <2>3 DEF Receive, DownTyped
      <3> QED
        BY <2>1, <3>1, Rest
    <2>4. CASE Unplug(c)
      <3>1. down'[c] = <<>>
        BY <2>4 DEF Unplug, DownTyped
      <3> QED
        BY <3>1
    <2> QED
      BY <2>2, <2>3, <2>4, Deliveries
  <1>2. down' = [c \in Client |-> down'[c]]
    <2>1. down = [c \in Client |-> down[c]]
      BY DEF DownTyped
    <2>2. ASSUME UNCHANGED down
          PROVE  down' = [c \in Client |-> down'[c]]
      BY <2>1, <2>2
    <2>3. ASSUME NEW c \in Client, Receive(c) \/ Unplug(c)
          PROVE  down' = [d \in Client |-> down'[d]]
      BY <2>1, <2>3 DEF Receive, Unplug
    <2>4. ASSUME NEW ended, NEW missed, EndCalls(ended, missed)
          PROVE  down' = [c \in Client |-> down'[c]]
      BY <2>4 DEF EndCalls
    <2>5. ASSUME NEW k \in Call, InviteRing(k)
          PROVE  down' = [c \in Client |-> down'[c]]
      BY <2>2, <2>5 DEF InviteRing
    <2>6. ASSUME NEW c \in Client, CallRespond(c)
          PROVE  down' = [d \in Client |-> down'[d]]
      BY <2>2, <2>6 DEF CallRespond, Emit
    <2>7. ASSUME NEW c \in Client,
                 \/ Answer(c) \/ CancelOutgoing(c) \/ Connect(c) \/ Reject(c) \/ CallInvite(c)
                 \/ \E k \in Call, id \in OwnId : StartCall(c, k, id)
          PROVE  UNCHANGED down
      BY <2>7 DEF Answer, CancelOutgoing, Connect, Reject, CallInvite, StartCall, wires
    <2>8. ASSUME \/ \E k \in Call : InviteMember(k) \/ InviteLeader(k) \/ InviteParty(k)
                 \/ PartyChanges \/ UNCHANGED vars
          PROVE  UNCHANGED down
      BY <2>8 DEF InviteMember, InviteLeader, InviteParty, PartyChanges, wires, vars
    <2>9. ASSUME \/ \E c \in Client : Sweep(c) \/ CallCancel(c)
                 \/ \E k \in Call : Expire(k)
          PROVE  down' = [c \in Client |-> down'[c]]
      BY <2>4, <2>9, Ends
    <2> QED
      BY <2>2, <2>3, <2>5, <2>6, <2>7, <2>8, <2>9
         DEF Next, Serve, InviteSteps, Disconnect, SignOut
  <1> QED
    BY <1>1, <1>2 DEF DownTyped

\* The pages and what they emit are well-typed, and steady pages stay connected.
LEMMA PageSteps ==
  ASSUME Typed, [Next]_vars
  PROVE  /\ role' \in Roster /\ conn' \in SUBSET Client /\ leaving' \in SUBSET Client
         /\ incoming' \in [Client -> Call \cup {None}]
         /\ outgoing' \in [Client -> Outgoing \cup {None}]
         /\ up' \in [Client -> Seq(Message)]
         /\ SteadyOn'
  <1> DEFINE Goal == /\ role' \in Roster /\ conn' \in SUBSET Client /\ leaving' \in SUBSET Client
                     /\ incoming' \in [Client -> Call \cup {None}]
                     /\ outgoing' \in [Client -> Outgoing \cup {None}]
                     /\ up' \in [Client -> Seq(Message)]
                     /\ SteadyOn'
  <1>1. /\ role \in Roster /\ conn \in SUBSET Client /\ leaving \in SUBSET Client
        /\ incoming \in [Client -> Call \cup {None}]
        /\ outgoing \in [Client -> Outgoing \cup {None}]
        /\ up \in [Client -> Seq(Message)]
        /\ Steady \subseteq conn
    BY DEF Typed, TypeOK, SteadyOn
  <1>2. ASSUME NEW c \in Client, NEW m \in Message, up' = [up EXCEPT ![c] = Append(@, m)]
        PROVE  up' \in [Client -> Seq(Message)]
    <2>1. Append(up[c], m) \in Seq(Message)
      BY <1>1, AppendProperties
    <2> QED
      BY <1>1, <1>2, <2>1
  <1>3. ASSUME NEW c \in Client, NEW k \in Call, NEW id \in OwnId, StartCall(c, k, id)
        PROVE  Goal
    <2>1. Msg("invite", k) \in Message /\ [id |-> id, status |-> "ringing"] \in Outgoing
      BY DEF Msg, Message, Outgoing
    <2>2. up' \in [Client -> Seq(Message)]
      BY <1>2, <1>3, <2>1 DEF StartCall
    <2> QED
      BY <1>1, <1>3, <2>1, <2>2 DEF StartCall, SteadyOn
  <1>4. ASSUME NEW c \in Client, Answer(c)
        PROVE  Goal
    <2>1. Msg("respond", incoming[c]) \in Message
      BY <1>1, <1>4 DEF Answer, Msg, Message
    <2>2. up' \in [Client -> Seq(Message)]
      BY <1>2, <1>4, <2>1 DEF Answer
    <2> QED
      BY <1>1, <1>4, <2>2 DEF Answer, SteadyOn, server
  <1>5. ASSUME NEW c \in Client, CancelOutgoing(c)
        PROVE  Goal
    <2>1. Msg("cancel", outgoing[c].id) \in Message
      BY <1>1, <1>5 DEF CancelOutgoing, Msg, Message, Outgoing
    <2>2. up' \in [Client -> Seq(Message)]
      BY <1>2, <1>5, <2>1 DEF CancelOutgoing
    <2> QED
      BY <1>1, <1>5, <2>2 DEF CancelOutgoing, SteadyOn, server
  <1>6. ASSUME NEW c \in Client, Receive(c)
        PROVE  Goal
    <2> DEFINE m == Head(down[c])
               in == IF m.kind = "incoming" THEN m.call
                     ELSE IF m.kind \in {"cancelled", "missed"} /\ incoming[c] = m.call
                       THEN None ELSE incoming[c]
               out == IF outgoing[c] = None \/ outgoing[c].id # m.call THEN outgoing[c]
                      ELSE IF m.kind = "ringing" THEN [outgoing[c] EXCEPT !.status = "waiting"]
                      ELSE IF m.kind \in {"cancelled", "missed"} THEN None ELSE outgoing[c]
    <2>1. m \in Told
      BY <1>6, Rest DEF Receive, Typed, DownTyped
    <2>2. /\ incoming' = [incoming EXCEPT ![c] = in] /\ outgoing' = [outgoing EXCEPT ![c] = out]
          /\ UNCHANGED <<role, conn, leaving, up>>
      BY <1>6 DEF Receive, server
    <2>3. m.call \in Call
      BY <2>1 DEF Told
    <2> HIDE DEF m
    <2>4. in \in Call \cup {None}
      BY <1>1, <2>3
    <2>5. out \in Outgoing \cup {None}
      <3>1. outgoing[c] \in Outgoing => [outgoing[c] EXCEPT !.status = "waiting"] \in Outgoing
        BY DEF Outgoing
      <3>2. outgoing[c] \in Outgoing \/ outgoing[c] = None
        BY <1>1
      <3> DEFINE waiting == [outgoing[c] EXCEPT !.status = "waiting"]
      <3> HIDE DEF waiting, out
      <3>3. out \in {outgoing[c], waiting, None}
        BY DEF out, waiting
      <3>4. outgoing[c] = None => out = None
        BY DEF out
      <3> QED
        BY <3>1, <3>2, <3>3, <3>4 DEF waiting
    <2> HIDE DEF in, out
    <2> QED
      BY <1>1, <2>2, <2>4, <2>5 DEF SteadyOn
  <1>7. ASSUME NEW c \in Client, Connect(c) \/ Sweep(c)
        PROVE  Goal
    BY <1>1, <1>7 DEF Connect, Sweep, SteadyOn, pages, wires
  <1>8. ASSUME NEW c \in Client, Disconnect(c) \/ SignOut(c)
        PROVE  Goal
    <2>1. up' = [up EXCEPT ![c] = <<>>]
      BY <1>8 DEF Disconnect, SignOut, Unplug
    <2>2. up' \in [Client -> Seq(Message)]
      BY <1>1, <2>1
    <2>3. \/ UNCHANGED <<incoming, outgoing>>
          \/ incoming' = [incoming EXCEPT ![c] = None] /\ outgoing' = [outgoing EXCEPT ![c] = None]
      BY <1>8 DEF Disconnect, SignOut, pages
    <2>4. Unplug(c)
      BY <1>8 DEF Disconnect, SignOut
    <2> QED
      BY <1>1, <2>2, <2>3, <2>4 DEF Unplug, SteadyOn
  <1>9. ASSUME NEW c \in Client, NEW kinds, Handle(c, kinds), UNCHANGED <<role, conn, leaving, pages>>
        PROVE  Goal
    <2>1. Tail(up[c]) \in Seq(Message)
      BY <1>1, <1>9, Rest DEF Handle
    <2> QED
      BY <1>1, <1>9, <2>1 DEF Handle, SteadyOn, pages
  <1>10. ASSUME NEW c \in Client, Serve(c)
         PROVE  Goal
    <2>1. UNCHANGED <<role, conn, leaving, pages>>
      BY <1>10 DEF Serve, CallInvite, CallRespond, CallCancel, Reject, server
    <2>2. \E kinds : Handle(c, kinds)
      BY <1>10 DEF Serve, CallInvite, CallRespond, CallCancel, Reject
    <2> QED
      BY <1>9, <2>1, <2>2
  <1>11. ASSUME NEW k \in Call, InviteSteps(k) \/ Expire(k)
         PROVE  UNCHANGED <<role, conn, leaving, pages, up>>
    BY <1>11 DEF InviteSteps, InviteMember, InviteLeader, InviteParty, InviteRing, Expire, wires
  <1>12. CASE UNCHANGED <<role, conn, leaving, pages, up>>
    BY <1>1, <1>12 DEF SteadyOn, pages
  <1>13. CASE PartyChanges \/ UNCHANGED vars
    BY <1>1, <1>13 DEF PartyChanges, vars, pages, wires, SteadyOn
  <1> QED
    BY <1>3, <1>4, <1>5, <1>6, <1>7, <1>8, <1>10, <1>11, <1>12, <1>13 DEF Next

LEMMA TypedSteps ==
  ASSUME Typed, [Next]_vars
  PROVE  Typed'
  <1>1. Inv' /\ DownTyped'
    BY CallSteps, DownSteps DEF Typed
  <1>2. Seq(Told) \subseteq Seq(Message)
    <2>1. Told \subseteq Message
      BY DEF Told, Message
    <2> QED
      BY <2>1, SeqMonotonic
  <1> QED
    BY <1>1, <1>2, PageSteps DEF Typed, TypeOK, DownTyped, Inv, CallsTyped

LEMMA InitTyped ==
  ASSUME Init
  PROVE  Typed
  <1>1. Free \in CallState /\ Free.stage = "free" /\ Free.responded = {}
    BY DEF Free, CallState, Stage
  <1>2. CallsTyped /\ Unanswered /\ Invited /\ FewRing
    BY <1>1, FS_EmptySet DEF Init, CallsTyped, Unanswered, Invited, FewRing
  <1>3. TimersMatch
    BY <1>1 DEF Init, TimersMatch, Pending
  <1>4. <<>> \in Seq(Told) /\ <<>> \in Seq(Message)
    BY EmptySeq
  <1>5. TypeOK /\ DownTyped /\ SteadyOn
    BY <1>2, <1>4, SteadyAssumption DEF Init, TypeOK, CallsTyped, DownTyped, SteadyOn
  <1> QED
    BY <1>2, <1>3, <1>5 DEF Typed, Inv

\* What travels and what the pages hold stays well-typed: among other things no page
\* is told of a call under the id another page drew, so that a ring can be answered.
THEOREM Typing == Spec => []TypeOK
<1>1. Typed /\ [Next]_vars => Typed'
  BY TypedSteps
<1> QED
  BY <1>1, InitTyped, PTL DEF Spec, Typed

-----------------------------------------------------------------------------
\* A "missed" is under way only for a call that is over and that somebody did not
\* answer; what an ended call says stays true.
MissedOver == \A c \in Client : \A m \in Sent(down[c]) :
  m.kind = "missed" => /\ call[m.call].stage = "over"
                       /\ call[m.call].members \ call[m.call].responded # {}

LEMMA MissedSteps ==
  ASSUME Typed, MissedOver, [Next]_vars
  PROVE  MissedOver'
  <1> SUFFICES ASSUME NEW c \in Client, NEW m \in Sent(down'[c]), m.kind = "missed"
               PROVE  /\ call'[m.call].stage = "over"
                      /\ call'[m.call].members \ call'[m.call].responded # {}
    BY DEF MissedOver, Sent
  <1>1. down[c] \in Seq(Told) /\ GoesOn
    BY CallSteps DEF Typed, DownTyped
  <1>2. CASE m \in Sent(down[c])
    <2>1. m \in Told
      BY <1>1, <1>2, LenProperties DEF Sent
    <2>2. m.call \in Call
      BY <2>1 DEF Told
    <2> QED
      BY <1>1, <1>2, <2>2 DEF MissedOver, GoesOn
  <1>3. CASE Delivery(c)
    BY <1>1, <1>2, <1>3, Extended DEF Delivery, Tells
  <1>4. CASE Receive(c)
    <2>1. down[c] # <<>> /\ down'[c] = Tail(down[c])
      BY <1>4 DEF Receive, Typed, DownTyped
    <2>2. m \in Sent(down[c])
      BY <1>1, <2>1, Rest DEF Sent
    <2> QED
      BY <1>2, <2>2
  <1>5. CASE Unplug(c)
    <2>1. down'[c] = <<>>
      BY <1>5 DEF Unplug, Typed, DownTyped
    <2> QED
      BY <2>1, Silence, EmptySeq
  <1> QED
    BY <1>3, <1>4, <1>5, Deliveries DEF Typed

\* No page is ever told it missed a call that everybody it rang has answered, however
\* the last answer raced with the timer.
THEOREM Missed == Spec => []MissedMeansUnanswered
<1>1. Init => MissedOver
  BY Silence, EmptySeq DEF Init, MissedOver
<1>2. Typed /\ MissedOver /\ [Next]_vars => Typed' /\ MissedOver'
  BY TypedSteps, MissedSteps
<1>3. MissedOver => MissedMeansUnanswered
  BY DEF MissedOver, MissedMeansUnanswered, Msg
<1> QED
  BY <1>1, <1>2, <1>3, InitTyped, PTL DEF Spec

-----------------------------------------------------------------------------
\* The ring of k that a page of user shows (i = 0), or that is the i-th message on its
\* way to it, is accounted for: k rings the user, and it still does, or he answered, or
\* the cancellation comes after the ring.
RingAfter(calls, queue, user, k, i) ==
  /\ k \in Call /\ calls[k].stage \in {"pending", "over"} /\ user \in calls[k].members
  /\ \/ calls[k].stage = "pending" \/ user \in calls[k].responded
     \/ \E j \in DOMAIN queue : j > i /\ queue[j] = Msg("cancelled", k)

RingsHeld == \A c \in Steady :
  /\ incoming[c] # None => RingAfter(call, down[c], Owner[c], incoming[c], 0)
  /\ \A i \in DOMAIN down[c] : down[c][i].kind = "incoming" =>
       RingAfter(call, down[c], Owner[c], down[c][i].call, i)

\* Whatever the server sends keeps a ring accounted for.
LEMMA RingCarried ==
  ASSUME Typed, NEW c \in Steady, GoesOn, Delivery(c), NEW k, NEW i,
         RingAfter(call, down[c], Owner[c], k, i), i = 0 \/ i \in DOMAIN down[c]
  PROVE  RingAfter(call', down'[c], Owner[c], k, i)
  <1>1. PICK t \in Seq(Told) : down'[c] = down[c] \o t /\ Tells(c, t)
    BY DEF Delivery
  <1>2. c \in conn /\ down[c] \in Seq(Told)
    BY SteadyAssumption DEF Typed, SteadyOn, DownTyped
  <1> DEFINE next == down[c] \o t
  <1>3. /\ \A j \in DOMAIN down[c] : j \in DOMAIN next /\ next[j] = down[c][j]
        /\ \A m \in Sent(t) : \E j \in DOMAIN next : next[j] = m /\ \A h \in DOMAIN down[c] : j > h
        /\ next \in Seq(Told)
    <2>1. \A j \in DOMAIN down[c] : j \in DOMAIN next /\ next[j] = down[c][j]
      BY <1>2, Extended
    <2>2. next \in Seq(Told)
      BY <1>2, Extended
    <2>3. \A m \in Sent(t) : \E j \in DOMAIN next : next[j] = m /\ \A h \in DOMAIN down[c] : j > h
      BY <1>2, Extended
    <2> QED
      BY <2>1, <2>2, <2>3
  <1> HIDE DEF next
  <1>4. \A j \in DOMAIN next : j > 0
    BY <1>3, LenProperties
  <1>5. /\ k \in Call /\ call'[k].stage \in {"pending", "over"}
        /\ Owner[c] \in call'[k].members /\ call'[k].members = call[k].members
    BY DEF RingAfter, GoesOn
  <1>6. CASE call[k].stage = "pending"
    <2>1. CASE k \in Pending'
      BY <1>5, <2>1 DEF RingAfter, Pending
    <2>2. CASE k \notin Pending'
      <3>1. k \in Pending
        BY <1>5, <1>6 DEF Pending
      <3>2. Owner[c] \in call'[k].responded \/ Msg("cancelled", k) \in Sent(t)
        BY <1>1, <1>2, <1>5, <3>1, <2>2 DEF Tells
      <3>3. Msg("cancelled", k) \in Sent(t) =>
              \E j \in DOMAIN next : j > i /\ next[j] = Msg("cancelled", k)
        BY <1>3, <1>4
      <3> QED
        BY <1>1, <1>5, <3>2, <3>3 DEF RingAfter, next
    <2> QED
      BY <2>1, <2>2
  <1>7. CASE Owner[c] \in call[k].responded
    BY <1>5, <1>7 DEF RingAfter, GoesOn
  <1>8. CASE \E j \in DOMAIN down[c] : j > i /\ down[c][j] = Msg("cancelled", k)
    <2>1. \E j \in DOMAIN next : j > i /\ next[j] = Msg("cancelled", k)
      BY <1>3, <1>8
    <2> QED
      BY <1>1, <1>5, <2>1 DEF RingAfter, next
  <1> QED
    BY <1>6, <1>7, <1>8 DEF RingAfter

\* So does a page hearing the first message on its way, unless that ends this ring.
LEMMA RingKept ==
  ASSUME NEW calls, NEW s \in Seq(Told), s # <<>>, NEW user, NEW k, NEW i \in Int, NEW h \in Int,
         RingAfter(calls, s, user, k, i), i >= 0, h = i - 1 \/ h = i,
         i > 0 \/ Head(s) # Msg("cancelled", k), h = i => i = 0
  PROVE  RingAfter(calls, Tail(s), user, k, h)
  <1> DEFINE rest == Tail(s)
  <1>1. /\ Head(s) = s[1] /\ DOMAIN s \subseteq Int
        /\ \A j \in DOMAIN s \ {1} : j - 1 \in DOMAIN rest /\ rest[j - 1] = s[j]
        /\ \A j \in DOMAIN s : j > 0
    BY Rest, LenProperties
  <1> HIDE DEF rest
  <1>2. ASSUME NEW j \in DOMAIN s, j > i, s[j] = Msg("cancelled", k)
        PROVE  j - 1 \in DOMAIN rest /\ j - 1 > h /\ rest[j - 1] = Msg("cancelled", k)
    <2>1. j # 1 /\ j \in Int
      BY <1>1, <1>2
    <2>2. j - 1 > h
      BY <1>1, <1>2, <2>1
    <2> QED
      BY <1>1, <1>2, <2>1, <2>2
  <1>3. (\E j \in DOMAIN s : j > i /\ s[j] = Msg("cancelled", k))
          => \E j \in DOMAIN rest : j > h /\ rest[j] = Msg("cancelled", k)
    BY <1>2
  <1> QED
    BY <1>3 DEF RingAfter, rest

\* A page takes up a ring, or lets one go, only as it hears of it.
LEMMA RingShown ==
  ASSUME Typed, [Next]_vars, NEW c \in Client, ~Receive(c)
  PROVE  incoming'[c] \in {None, incoming[c]}
  <1>1. ASSUME UNCHANGED incoming
        PROVE  incoming'[c] \in {None, incoming[c]}
    BY <1>1
  <1>2. incoming \in [Client -> Call \cup {None}]
    BY DEF Typed, TypeOK
  <1>3. ASSUME NEW d \in Client, Answer(d) \/ SignOut(d)
        PROVE  incoming'[c] \in {None, incoming[c]}
    BY <1>2, <1>3 DEF Answer, SignOut
  <1>4. ASSUME NEW d \in Client, Receive(d)
        PROVE  incoming'[c] \in {None, incoming[c]}
    <2>1. d # c
      BY <1>4
    <2> QED
      BY <1>2, <1>4, <2>1 DEF Receive
  <1>5. ASSUME NEW d \in Client,
               \/ CancelOutgoing(d) \/ Connect(d) \/ Disconnect(d) \/ Sweep(d) \/ Serve(d)
               \/ \E k \in Call, id \in OwnId : StartCall(d, k, id)
        PROVE  UNCHANGED incoming
    BY <1>5 DEF CancelOutgoing, Connect, Disconnect, Sweep, Serve, CallInvite, CallRespond,
                CallCancel, Reject, StartCall, pages
  <1>6. ASSUME \/ \E k \in Call : InviteSteps(k) \/ Expire(k)
               \/ PartyChanges \/ UNCHANGED vars
        PROVE  UNCHANGED incoming
    BY <1>6 DEF InviteSteps, InviteMember, InviteLeader, InviteParty, InviteRing, Expire,
                PartyChanges, pages, vars
  <1> QED
    BY <1>1, <1>3, <1>4, <1>5, <1>6 DEF Next

LEMMA RingsSteps ==
  ASSUME Typed, RingsHeld, [Next]_vars
  PROVE  RingsHeld'
  <1> SUFFICES ASSUME NEW c \in Steady
               PROVE  /\ incoming'[c] # None =>
                           RingAfter(call', down'[c], Owner[c], incoming'[c], 0)
                      /\ \A i \in DOMAIN down'[c] : down'[c][i].kind = "incoming" =>
                           RingAfter(call', down'[c], Owner[c], down'[c][i].call, i)
    BY DEF RingsHeld
  <1>1. c \in Client /\ c \in conn /\ down[c] \in Seq(Told) /\ GoesOn
    BY SteadyAssumption, CallSteps DEF Typed, SteadyOn, DownTyped
  <1>2. ~Unplug(c)
    BY DEF Unplug
  <1>3. CASE Receive(c)
    <2> DEFINE m == Head(down[c])
               rest == Tail(down[c])
    <2>1. /\ down[c] # <<>> /\ down'[c] = rest /\ UNCHANGED call
          /\ incoming'[c] = IF m.kind = "incoming" THEN m.call
                            ELSE IF m.kind \in {"cancelled", "missed"} /\ incoming[c] = m.call
                              THEN None ELSE incoming[c]
      BY <1>1, <1>3 DEF Receive, Typed, DownTyped, TypeOK, server
    <2>2. /\ m = down[c][1] /\ 1 \in DOMAIN down[c] /\ rest \in Seq(Told)
          /\ \A i \in DOMAIN rest : i + 1 \in DOMAIN down[c] /\ rest[i] = down[c][i + 1]
      BY <1>1, <2>1, Rest
    <2>3. \A i \in DOMAIN rest : i \in Int /\ i > 0
      BY <2>2, LenProperties
    <2>4. ASSUME NEW i \in DOMAIN rest, rest[i].kind = "incoming"
          PROVE  RingAfter(call, rest, Owner[c], rest[i].call, i)
      <3>1. RingAfter(call, down[c], Owner[c], rest[i].call, i + 1)
        BY <2>2, <2>4 DEF RingsHeld
      <3>2. i \in Int /\ i + 1 \in Int /\ i + 1 > 0 /\ i = (i + 1) - 1 /\ i # i + 1
        BY <2>3
      <3> HIDE DEF rest
      <3> QED
        BY <1>1, <2>1, <3>1, <3>2, RingKept DEF rest
    <2>5. CASE m.kind = "incoming"
      <3>1. RingAfter(call, down[c], Owner[c], m.call, 1)
        BY <2>2, <2>5 DEF RingsHeld
      <3>2. RingAfter(call, rest, Owner[c], m.call, 0)
        BY <1>1, <2>1, <3>1, RingKept
      <3> QED
        BY <2>1, <2>4, <2>5, <3>2
    <2>6. CASE m.kind # "incoming"
      <3>1. ASSUME incoming'[c] # None
            PROVE  RingAfter(call, rest, Owner[c], incoming[c], 0) /\ incoming'[c] = incoming[c]
        <4>1. incoming'[c] = incoming[c] /\ RingAfter(call, down[c], Owner[c], incoming[c], 0)
          BY <2>1, <2>6, <3>1 DEF RingsHeld
        <4>2. m # Msg("cancelled", incoming[c])
          BY <2>1, <3>1, <4>1 DEF Msg
        <4> QED
          BY <1>1, <2>1, <4>1, <4>2, RingKept
      <3> QED
        BY <2>1, <2>4, <3>1
    <2> QED
      BY <2>5, <2>6
  <1>4. CASE Delivery(c) /\ ~Receive(c)
    <2>1. incoming'[c] \in {None, incoming[c]}
      BY <1>1, <1>4, RingShown
    <2>2. PICK t \in Seq(Told) : down'[c] = down[c] \o t /\ Tells(c, t)
      BY <1>4 DEF Delivery
    <2> DEFINE next == down[c] \o t
    <2>3. /\ next \in Seq(Told)
          /\ \A i \in DOMAIN down[c] : next[i] = down[c][i]
          /\ \A i \in DOMAIN next : i \in DOMAIN down[c] \/ next[i] \in Sent(t)
      BY <1>1, Extended
    <2> HIDE DEF next
    <2>4. ASSUME NEW i \in DOMAIN next, next[i].kind = "incoming"
          PROVE  RingAfter(call', next, Owner[c], next[i].call, i)
      <3>1. CASE i \in DOMAIN down[c]
        <4>1. RingAfter(call, down[c], Owner[c], next[i].call, i)
          BY <2>3, <2>4, <3>1 DEF RingsHeld
        <4> QED
          BY <1>1, <1>4, <2>2, <3>1, <4>1, RingCarried DEF next
      <3>2. CASE next[i] \in Sent(t)
        <4>1. next[i].call \in Pending' /\ Owner[c] \in call'[next[i].call].members
          BY <2>2, <2>4, <3>2 DEF Tells
        <4> QED
          BY <4>1 DEF RingAfter, Pending
      <3> QED
        BY <2>3, <3>1, <3>2
    <2>5. ASSUME incoming'[c] # None
          PROVE  RingAfter(call', next, Owner[c], incoming[c], 0) /\ incoming'[c] = incoming[c]
      <3>1. incoming'[c] = incoming[c] /\ RingAfter(call, down[c], Owner[c], incoming[c], 0)
        BY <2>1, <2>5 DEF RingsHeld
      <3> QED
        BY <1>1, <1>4, <2>2, <3>1, RingCarried DEF next
    <2> QED
      BY <2>2, <2>4, <2>5 DEF next
  <1> QED
    BY <1>1, <1>2, <1>3, <1>4, Deliveries DEF Typed

\* A page with a steady connection never shows a ring nobody will take away: its call
\* still rings, or the cancellation is under way, or the user has answered elsewhere.
THEOREM Rung == Spec => []RingsAccounted
<1>1. Init => RingsHeld
  BY SteadyAssumption, Silence, EmptySeq DEF Init, RingsHeld
<1>2. Typed /\ RingsHeld /\ [Next]_vars => Typed' /\ RingsHeld'
  BY TypedSteps, RingsSteps
<1>3. RingsHeld => RingsAccounted
  BY DEF RingsHeld, RingAfter, RingsAccounted, Sent, Pending
<1> QED
  BY <1>1, <1>2, <1>3, InitTyped, PTL DEF Spec
=============================================================================
