------------------------- MODULE EventBrokerProofs -------------------------
(***************************************************************************)
(* Proofs about EventBroker for any number of streams, any buffer size and *)
(* any number of events.                                                   *)
(***************************************************************************)
EXTENDS EventBroker, TLAPS

Steps == {"new", "upgrade", "select", "writing", "ending", "ended"}
Attached == {"upgrade", "select", "writing"}

\* The events of s that were handed to its client, its handler or its channel.
Reached(s) == start[s] + Len(got[s]) + InHand(s) + Len(buf[s])

(***************************************************************************)
(* GapFree is inductive only with what holds before a stream is opened and *)
(* after its channel was dropped: then at least one event never reached it. *)
(***************************************************************************)
StreamInv(s) ==
    /\ pc[s] = "new" =>
          s \notin registered /\ buf[s] = <<>> /\ got[s] = <<>> /\ closes[s] = 0
    /\ pc[s] = "ended" => s \notin registered
    /\ \A i \in 1..Len(got[s]) : got[s][i] = start[s] + i
    /\ pc[s] = "writing" => hand[s] = start[s] + Len(got[s]) + 1
    /\ pc[s] \in Attached =>
          /\ \A i \in 1..Len(buf[s]) : buf[s][i] = start[s] + Len(got[s]) + InHand(s) + i
          /\ s \in registered => Reached(s) = published
          /\ s \notin registered => Reached(s) < published
    /\ closes[s] <= 1
    /\ s \in registered => closes[s] = 0
    /\ s \in toldSlow => start[s] + Len(got[s]) < published /\ pc[s] \in {"ending", "ended"}

BrokerInv == \A s \in Subs : StreamInv(s)

THEOREM BrokerTypeCorrect == Spec => []TypeOK
  <1> USE CapAssumption, MaxEventsAssumption
  <1>1. Init => TypeOK
    <2>1. <<>> \in Seq(Nat) /\ Len(<<>>) = 0
      OBVIOUS
    <2>2. ASSUME Init, NEW s \in Subs PROVE Len(buf[s]) <= Cap
      <3>1. buf[s] = <<>>
        BY <2>2 DEF Init
      <3>2. QED
        BY <2>1, <3>1
    <2> SUFFICES ASSUME Init PROVE TypeOK
      OBVIOUS
    <2>3. buf \in [Subs -> Seq(Nat)] /\ got \in [Subs -> Seq(Nat)]
      BY <2>1 DEF Init
    <2>4. \A s \in Subs : Len(buf[s]) <= Cap
      BY <2>2
    <2>5. /\ published \in Nat /\ closes \in [Subs -> Nat] /\ hand \in [Subs -> Nat]
          /\ start \in [Subs -> Nat] /\ shutdown \in BOOLEAN
          /\ pc \in [Subs -> {"new", "upgrade", "select", "writing", "ending", "ended"}]
      BY DEF Init
    <2>6. registered \subseteq Subs /\ toldSlow \subseteq Subs /\ revoked \subseteq Subs
      BY DEF Init
    <2>7. QED
      BY <2>3, <2>4, <2>5, <2>6 DEF TypeOK
  <1>2. TypeOK /\ [Next]_vars => TypeOK'
    <2> SUFFICES ASSUME TypeOK, [Next]_vars PROVE TypeOK'
      OBVIOUS
    <2>1. CASE Publish
      <3>1. published' \in Nat /\ registered' \subseteq Subs /\ closes' \in [Subs -> Nat]
        BY <2>1 DEF Publish, TypeOK
      <3>2. buf' \in [Subs -> Seq(Nat)] /\ \A s \in Subs : Len(buf'[s]) <= Cap
        BY <2>1 DEF Publish, TypeOK, Full
      <3>3. QED
        BY <2>1, <3>1, <3>2 DEF Publish, TypeOK
    <2>2. CASE CloseStreams
      BY <2>2 DEF CloseStreams, TypeOK
    <2>3. ASSUME NEW s \in Subs, Revoke(s) PROVE TypeOK'
      BY <2>3 DEF Revoke, TypeOK
    <2>4. ASSUME NEW s \in Subs, Subscribe(s) PROVE TypeOK'
      BY <2>4 DEF Subscribe, TypeOK
    <2>5. ASSUME NEW s \in Subs, Upgrade(s) PROVE TypeOK'
      BY <2>5 DEF Upgrade, TypeOK
    <2>6. ASSUME NEW s \in Subs, Receive(s) PROVE TypeOK'
      <3>1. Head(buf[s]) \in Nat /\ Tail(buf[s]) \in Seq(Nat) /\ Len(Tail(buf[s])) <= Cap
        BY <2>6 DEF Receive, TypeOK
      <3>2. QED
        BY <2>6, <3>1 DEF Receive, TypeOK
    <2>7. ASSUME NEW s \in Subs, Written(s) PROVE TypeOK'
      <3>1. Append(got[s], hand[s]) \in Seq(Nat)
        BY <2>7 DEF Written, TypeOK
      <3>2. QED
        BY <2>7, <3>1 DEF Written, TypeOK
    <2>8. ASSUME NEW s \in Subs, StreamEnds(s) PROVE TypeOK'
      <3>1. /\ pc' = [pc EXCEPT ![s] = "ending"] /\ hand' = [hand EXCEPT ![s] = 0]
            /\ toldSlow' \in {toldSlow, toldSlow \union {s}}
            /\ UNCHANGED <<published, registered, buf, closes, got, start, revoked, shutdown>>
        BY <2>8 DEF StreamEnds, SeesClosed, ClientGone, SeesShutdown, SeesRevoked,
                    UpgradeFails, WriteFails, EndStream
      <3>2. QED
        BY <3>1 DEF TypeOK
    <2>9. ASSUME NEW s \in Subs, Unsubscribe(s) PROVE TypeOK'
      BY <2>9 DEF Unsubscribe, TypeOK
    <2>10. CASE UNCHANGED vars
      BY <2>10 DEF vars, TypeOK
    <2>11. QED
      BY <2>1, <2>2, <2>3, <2>4, <2>5, <2>6, <2>7, <2>8, <2>9, <2>10 DEF Next, Stream
  <1>3. QED
    BY <1>1, <1>2, PTL DEF Spec, Safe

\* A step that leaves everything about a stream alone keeps its invariant.
LEMMA StreamUntouched ==
    ASSUME NEW s \in Subs, StreamInv(s), published' = published,
           s \in registered' <=> s \in registered,
           s \in toldSlow' <=> s \in toldSlow,
           pc'[s] = pc[s], buf'[s] = buf[s], got'[s] = got[s], hand'[s] = hand[s],
           start'[s] = start[s], closes'[s] = closes[s]
    PROVE  StreamInv(s)'
  BY DEF StreamInv, Reached, InHand

\* A sum the step below needs, kept apart from its sequences.
LEMMA IndexShift ==
    ASSUME NEW a \in Nat, NEW b \in Nat, NEW i \in Nat
    PROVE  a + b + (i + 1) = a + b + 1 + i
  OBVIOUS

LEMMA BrokerInvStep == TypeOK /\ BrokerInv /\ [Next]_vars => BrokerInv'
  <1> SUFFICES ASSUME TypeOK, BrokerInv, [Next]_vars, NEW s \in Subs PROVE StreamInv(s)'
    BY DEF BrokerInv
  <1>0. got[s] \in Seq(Nat) /\ buf[s] \in Seq(Nat)
    BY DEF TypeOK
  <1>1. /\ StreamInv(s) /\ published \in Nat /\ start[s] \in Nat /\ closes[s] \in Nat
        /\ hand[s] \in Nat /\ Len(got[s]) \in Nat /\ Len(buf[s]) \in Nat
        /\ pc[s] \in Steps
    BY <1>0 DEF BrokerInv, TypeOK, Steps
  <1>t. published \in Nat /\ start[s] \in Nat /\ Len(got[s]) \in Nat /\ Len(buf[s]) \in Nat
    BY <1>1
  <1>2. CASE Publish
    <2>1. /\ published' = published + 1 /\ pc' = pc /\ got' = got /\ hand' = hand
          /\ start' = start /\ toldSlow' = toldSlow
      BY <1>2 DEF Publish
    <2>a. s \in toldSlow' => start'[s] + Len(got'[s]) < published'
      <3>1. s \in toldSlow => start[s] + Len(got[s]) < published
        BY <1>1 DEF StreamInv
      <3>2. start[s] + Len(got[s]) < published => start[s] + Len(got[s]) < published + 1
        BY <1>t
      <3>3. QED
        BY <2>1, <3>1, <3>2
    <2>2. CASE s \in registered /\ ~ Full(s)
      <3>1. /\ buf'[s] = Append(buf[s], published + 1)
            /\ s \in registered' /\ closes'[s] = closes[s]
        BY <1>2, <2>2 DEF Publish, Dropped
      <3>2. /\ Len(buf'[s]) = Len(buf[s]) + 1
            /\ \A i \in 1..Len(buf[s]) : buf'[s][i] = buf[s][i]
            /\ buf'[s][Len(buf[s]) + 1] = published + 1
        BY <1>0, <1>1, <3>1
      <3>3. InHand(s)' = InHand(s) /\ InHand(s) \in Nat
        BY <2>1 DEF InHand
      <3>c. start[s] + Len(got[s]) + InHand(s) + (Len(buf[s]) + 1)
              = start[s] + Len(got[s]) + InHand(s) + Len(buf[s]) + 1
        <4>1. CASE pc[s] = "writing"
          BY <1>t, <4>1 DEF InHand
        <4>2. CASE pc[s] # "writing"
          BY <1>t, <4>2 DEF InHand
        <4>3. QED
          BY <4>1, <4>2
      <3>a. ASSUME pc[s] \in Attached
            PROVE  /\ Reached(s) = published
                   /\ \A i \in 1..Len(buf[s]) :
                         buf[s][i] = start[s] + Len(got[s]) + InHand(s) + i
        BY <1>1, <2>2, <3>a DEF StreamInv
      <3>4. ASSUME pc[s] \in Attached PROVE Reached(s)' = published'
        <4>1. start[s] + Len(got[s]) + InHand(s) + Len(buf[s]) = published
          BY <3>a, <3>4 DEF Reached
        <4>2. Reached(s)' = start[s] + Len(got[s]) + InHand(s) + (Len(buf[s]) + 1)
          BY <2>1, <3>2, <3>3 DEF Reached
        <4>3. start[s] + Len(got[s]) + InHand(s) + (Len(buf[s]) + 1)
                = start[s] + Len(got[s]) + InHand(s) + Len(buf[s]) + 1
          BY <3>c
        <4>4. QED
          BY <2>1, <4>1, <4>2, <4>3
      <3>5. ASSUME pc[s] \in Attached, NEW i \in 1..Len(buf'[s])
            PROVE  buf'[s][i] = start[s] + Len(got[s]) + InHand(s) + i
        <4>1. CASE i = Len(buf[s]) + 1
          <5>1. start[s] + Len(got[s]) + InHand(s) + Len(buf[s]) = published
            BY <3>a, <3>5 DEF Reached
          <5>2. QED
            BY <3>2, <3>c, <4>1, <5>1
        <4>2. CASE i # Len(buf[s]) + 1
          <5>1. i \in 1..Len(buf[s])
            BY <1>1, <3>2, <3>5, <4>2
          <5>2. QED
            BY <3>2, <3>a, <3>5, <5>1
        <4>3. QED
          BY <4>1, <4>2
      <3>6. pc[s] # "new"
        BY <1>1, <2>2 DEF StreamInv
      <3>7. pc[s] # "ended"
        BY <1>1, <2>2 DEF StreamInv
      <3>8. pc[s] \in Attached => \A i \in 1..Len(buf'[s]) :
                buf'[s][i] = start[s] + Len(got[s]) + InHand(s) + i
        BY <3>5
      <3>9. pc[s] \in Attached => \A i \in 1..Len(buf'[s]) :
                buf'[s][i] = start'[s] + Len(got'[s]) + InHand(s)' + i
        BY <2>1, <3>3, <3>8
      <3>10. /\ \A i \in 1..Len(got[s]) : got[s][i] = start[s] + i
             /\ pc[s] = "writing" => hand[s] = start[s] + Len(got[s]) + 1
             /\ closes[s] = 0 /\ closes[s] <= 1
             /\ s \in toldSlow => pc[s] \in {"ending", "ended"}
        BY <1>1, <2>2 DEF StreamInv
      <3>11. QED
        BY <2>1, <2>a, <3>1, <3>4, <3>6, <3>7, <3>9, <3>10 DEF StreamInv
    <2>3. CASE s \in registered /\ Full(s)
      <3>1. buf'[s] = buf[s] /\ s \notin registered' /\ closes'[s] = closes[s] + 1
        BY <1>2, <2>3 DEF Publish, Dropped, TypeOK
      <3>2. InHand(s)' = InHand(s) /\ InHand(s) \in Nat /\ Reached(s)' = Reached(s)
        BY <2>1, <3>1 DEF InHand, Reached
      <3>3. pc[s] \in Attached => Reached(s)' < published'
        <4>1. pc[s] \in Attached => Reached(s) = published
          BY <1>1, <2>3 DEF StreamInv
        <4>2. published < published + 1
          BY <1>t
        <4>3. QED
          BY <2>1, <3>2, <4>1, <4>2
      <3>4. closes'[s] = 1
        <4>1. closes[s] = 0
          BY <1>1, <2>3 DEF StreamInv
        <4>2. QED
          BY <3>1, <4>1
      <3>5. pc[s] # "new"
        BY <1>1, <2>3 DEF StreamInv
      <3>6. QED
        BY <1>1, <2>1, <2>a, <3>1, <3>2, <3>3, <3>4, <3>5 DEF StreamInv
    <2>4. CASE s \notin registered
      <3>1. buf'[s] = buf[s] /\ s \notin registered' /\ closes'[s] = closes[s]
        BY <1>2, <2>4 DEF Publish, Dropped, TypeOK
      <3>2. InHand(s)' = InHand(s) /\ InHand(s) \in Nat /\ Reached(s)' = Reached(s)
        BY <2>1, <3>1 DEF InHand, Reached
      <3>3. pc[s] \in Attached => Reached(s)' < published'
        <4>1. pc[s] \in Attached => Reached(s) < published
          BY <1>1, <2>4 DEF StreamInv
        <4>2. Reached(s) \in Nat
          BY <1>t, <3>2 DEF Reached
        <4>3. Reached(s) < published => Reached(s) < published + 1
          BY <1>t, <4>2
        <4>4. QED
          BY <2>1, <3>2, <4>1, <4>3
      <3>4. QED
        BY <1>1, <2>1, <2>a, <2>4, <3>1, <3>2, <3>3 DEF StreamInv
    <2>5. QED
      BY <2>2, <2>3, <2>4
  <1>3. CASE CloseStreams \/ UNCHANGED vars
    BY <1>1, <1>3, StreamUntouched DEF CloseStreams, vars
  <1>4. ASSUME NEW t \in Subs, Revoke(t) PROVE StreamInv(s)'
    BY <1>1, <1>4, StreamUntouched DEF Revoke
  <1>5. ASSUME NEW t \in Subs, Stream(t), t # s PROVE StreamInv(s)'
    <2>1. /\ published' = published
          /\ s \in registered' <=> s \in registered
          /\ s \in toldSlow' <=> s \in toldSlow
          /\ pc'[s] = pc[s] /\ buf'[s] = buf[s] /\ got'[s] = got[s] /\ hand'[s] = hand[s]
          /\ start'[s] = start[s] /\ closes'[s] = closes[s]
      BY <1>5 DEF Stream, Subscribe, Upgrade, Receive, Written, StreamEnds, SeesClosed,
                  ClientGone, SeesShutdown, SeesRevoked, UpgradeFails, WriteFails,
                  EndStream, Unsubscribe, TypeOK
    <2>2. QED
      BY <1>1, <2>1, StreamUntouched
  <1>6. CASE Subscribe(s)
    <2>1. /\ pc[s] = "new" /\ pc'[s] = "upgrade" /\ start'[s] = published
          /\ s \in registered' /\ published' = published /\ buf' = buf /\ got' = got
          /\ closes' = closes /\ toldSlow' = toldSlow
      BY <1>6 DEF Subscribe, TypeOK
    <2>2. /\ buf[s] = <<>> /\ got[s] = <<>> /\ closes[s] = 0
          /\ ~ (s \in toldSlow)
      BY <1>1, <2>1 DEF StreamInv
    <2>3. Len(buf[s]) = 0 /\ Len(got[s]) = 0
      BY <2>2
    <2>4. InHand(s)' = 0
      BY <2>1 DEF InHand
    <2>5. Reached(s)' = published
      <3>1. Reached(s)' = published + 0 + 0 + 0
        BY <2>1, <2>3, <2>4 DEF Reached
      <3>2. QED
        BY <1>t, <3>1
    <2>6. 1..Len(got'[s]) = {} /\ 1..Len(buf'[s]) = {}
      BY <2>1, <2>3
    <2>7. QED
      BY <2>1, <2>2, <2>5, <2>6 DEF StreamInv
  <1>7. CASE Upgrade(s)
    <2>1. /\ pc[s] = "upgrade" /\ pc'[s] = "select" /\ registered' = registered
          /\ published' = published /\ buf' = buf /\ got' = got /\ start' = start
          /\ closes' = closes /\ toldSlow' = toldSlow
      BY <1>7 DEF Upgrade, TypeOK
    <2>2. QED
      BY <1>1, <2>1 DEF StreamInv, Reached, InHand, Attached
  <1>8. CASE Receive(s)
    <2>1. /\ pc[s] = "select" /\ pc'[s] = "writing" /\ registered' = registered
          /\ published' = published /\ got' = got /\ start' = start
          /\ closes' = closes /\ toldSlow' = toldSlow
          /\ buf[s] # <<>> /\ hand'[s] = Head(buf[s]) /\ buf'[s] = Tail(buf[s])
      BY <1>8 DEF Receive, TypeOK
    <2>2. /\ hand'[s] = buf[s][1] /\ Len(buf[s]) >= 1 /\ Len(buf'[s]) = Len(buf[s]) - 1
          /\ \A i \in 1..Len(buf'[s]) : buf'[s][i] = buf[s][i + 1]
      BY <1>0, <1>1, <2>1
    <2>3. InHand(s) = 0 /\ InHand(s)' = 1
      BY <2>1 DEF InHand
    <2>4. Reached(s)' = Reached(s)
      <3>1. Reached(s) = start[s] + Len(got[s]) + 0 + Len(buf[s])
        BY <2>3 DEF Reached
      <3>2. Reached(s)' = start[s] + Len(got[s]) + 1 + Len(buf'[s])
        BY <2>1, <2>3 DEF Reached
      <3>3. QED
        BY <1>1, <2>2, <3>1, <3>2
    <2>5. pc[s] \in Attached /\ pc'[s] \in Attached
      BY <2>1 DEF Attached
    <2>6. \A i \in 1..Len(buf[s]) : buf[s][i] = start[s] + Len(got[s]) + i
      BY <1>1, <2>3, <2>5 DEF StreamInv
    <2>7. /\ hand'[s] = start[s] + Len(got[s]) + 1
          /\ \A i \in 1..Len(buf'[s]) : buf'[s][i] = start[s] + Len(got[s]) + 1 + i
      <3>1. buf[s][1] = start[s] + Len(got[s]) + 1
        BY <1>1, <2>2, <2>6
      <3>2. ASSUME NEW i \in 1..Len(buf'[s])
            PROVE  buf'[s][i] = start[s] + Len(got[s]) + 1 + i
        <4>1. i \in Nat /\ i + 1 \in 1..Len(buf[s]) /\ buf'[s][i] = buf[s][i + 1]
          BY <1>1, <2>2
        <4>2. buf[s][i + 1] = start[s] + Len(got[s]) + (i + 1)
          BY <2>6, <4>1
        <4>3. start[s] + Len(got[s]) + (i + 1) = start[s] + Len(got[s]) + 1 + i
          BY <1>t, <4>1, IndexShift
        <4>4. QED
          BY <4>1, <4>2, <4>3
      <3>3. QED
        BY <2>2, <3>1, <3>2
    <2>8. /\ s \in registered => Reached(s) = published
          /\ s \notin registered => Reached(s) < published
          /\ closes[s] <= 1
          /\ s \in registered => closes[s] = 0
          /\ \A i \in 1..Len(got[s]) : got[s][i] = start[s] + i
          /\ s \notin toldSlow
      BY <1>1, <2>1, <2>5 DEF StreamInv
    <2>9. \A i \in 1..Len(buf'[s]) :
             buf'[s][i] = start'[s] + Len(got'[s]) + InHand(s)' + i
      BY <2>1, <2>3, <2>7
    <2>10. QED
      BY <2>1, <2>4, <2>7, <2>8, <2>9 DEF StreamInv
  <1>9. CASE Written(s)
    <2>1. /\ pc[s] = "writing" /\ pc'[s] = "select" /\ registered' = registered
          /\ published' = published /\ start' = start /\ buf' = buf
          /\ closes' = closes /\ toldSlow' = toldSlow
          /\ got'[s] = Append(got[s], hand[s])
      BY <1>9 DEF Written, TypeOK
    <2>2. /\ Len(got'[s]) = Len(got[s]) + 1
          /\ \A i \in 1..Len(got[s]) : got'[s][i] = got[s][i]
          /\ got'[s][Len(got[s]) + 1] = hand[s]
      BY <1>0, <1>1, <2>1
    <2>3. InHand(s) = 1 /\ InHand(s)' = 0
      BY <2>1 DEF InHand
    <2>4. Reached(s)' = Reached(s)
      <3>1. Reached(s) = start[s] + Len(got[s]) + 1 + Len(buf[s])
        BY <2>3 DEF Reached
      <3>2. Reached(s)' = start[s] + (Len(got[s]) + 1) + 0 + Len(buf[s])
        BY <2>1, <2>2, <2>3 DEF Reached
      <3>3. QED
        BY <1>1, <3>1, <3>2
    <2>5. pc[s] \in Attached /\ pc'[s] \in Attached
      BY <2>1 DEF Attached
    <2>6. hand[s] = start[s] + Len(got[s]) + 1
      BY <1>1, <2>1 DEF StreamInv
    <2>7. \A i \in 1..Len(got'[s]) : got'[s][i] = start[s] + i
      <3> SUFFICES ASSUME NEW i \in 1..Len(got'[s]) PROVE got'[s][i] = start[s] + i
        OBVIOUS
      <3>1. \A j \in 1..Len(got[s]) : got[s][j] = start[s] + j
        BY <1>1 DEF StreamInv
      <3>2. CASE i = Len(got[s]) + 1
        BY <1>1, <2>2, <2>6, <3>2
      <3>3. CASE i # Len(got[s]) + 1
        <4>1. i \in 1..Len(got[s])
          BY <1>1, <2>2, <3>3
        <4>2. QED
          BY <2>2, <3>1, <4>1
      <3>4. QED
        BY <3>2, <3>3
    <2>8. \A i \in 1..Len(buf[s]) : buf[s][i] = start[s] + Len(got'[s]) + i
      <3>1. \A i \in 1..Len(buf[s]) : buf[s][i] = start[s] + Len(got[s]) + 1 + i
        BY <1>1, <2>3, <2>5 DEF StreamInv
      <3>2. Len(got'[s]) = Len(got[s]) + 1
        BY <2>2
      <3>3. ASSUME NEW i \in 1..Len(buf[s])
            PROVE  start[s] + Len(got[s]) + 1 + i = start[s] + (Len(got[s]) + 1) + i
        BY <1>t
      <3>4. QED
        BY <3>1, <3>2, <3>3
    <2>9. s \notin toldSlow
      BY <1>1, <2>1 DEF StreamInv
    <2>10. \A i \in 1..Len(buf'[s]) :
              buf'[s][i] = start'[s] + Len(got'[s]) + InHand(s)' + i
      <3>1. ASSUME NEW i \in 1..Len(buf[s])
            PROVE  start[s] + Len(got'[s]) + 0 + i = start[s] + Len(got'[s]) + i
        BY <1>t, <2>2
      <3>2. QED
        BY <2>1, <2>3, <2>8, <3>1
    <2>11. /\ s \in registered => Reached(s) = published
           /\ s \notin registered => Reached(s) < published
           /\ closes[s] <= 1
           /\ s \in registered => closes[s] = 0
      BY <1>1, <2>5 DEF StreamInv
    <2>12. QED
      BY <2>1, <2>4, <2>7, <2>9, <2>10, <2>11 DEF StreamInv
  <1>10. CASE StreamEnds(s)
    <2>1. /\ pc[s] \in Attached /\ pc'[s] = "ending" /\ registered' = registered
          /\ published' = published /\ start' = start /\ buf' = buf /\ got' = got
          /\ closes' = closes
      BY <1>10 DEF StreamEnds, SeesClosed, ClientGone, SeesShutdown, SeesRevoked,
                   UpgradeFails, WriteFails, EndStream, Attached, TypeOK
    <2>2. s \in toldSlow' => s \in toldSlow \/ (pc[s] = "select" /\ s \notin registered)
      BY <1>10 DEF StreamEnds, SeesClosed, Exhausted, ClientGone, SeesShutdown, SeesRevoked,
                   UpgradeFails, WriteFails
    <2>3. QED
      BY <1>1, <2>1, <2>2 DEF StreamInv, Reached, InHand, Attached
  <1>11. CASE Unsubscribe(s)
    <2>1. /\ pc[s] = "ending" /\ pc'[s] = "ended" /\ s \notin registered'
          /\ published' = published /\ start' = start /\ got' = got /\ toldSlow' = toldSlow
          /\ closes'[s] = IF s \in registered THEN closes[s] + 1 ELSE closes[s]
      BY <1>11 DEF Unsubscribe, MustClose, TypeOK
    <2>2. QED
      BY <1>1, <2>1 DEF StreamInv, Attached
  <1>12. QED
    BY <1>2, <1>3, <1>4, <1>5, <1>6, <1>7, <1>8, <1>9, <1>10, <1>11 DEF Next, Stream

\* BrokerInv holds of every reachable state.
THEOREM BrokerInvariant == Spec => []BrokerInv
  <1>1. Init => BrokerInv
    <2> SUFFICES ASSUME Init, NEW s \in Subs PROVE StreamInv(s)
      BY DEF BrokerInv
    <2>1. Len(<<>>) = 0
      OBVIOUS
    <2>2. /\ pc[s] = "new" /\ s \notin registered /\ s \notin toldSlow
          /\ buf[s] = <<>> /\ got[s] = <<>> /\ closes[s] = 0
      BY DEF Init
    <2>3. 1..Len(got[s]) = {}
      BY <2>1, <2>2
    <2>4. QED
      BY <2>2, <2>3 DEF StreamInv, Attached
  <1>2. QED
    BY <1>1, BrokerTypeCorrect, BrokerInvStep, PTL DEF Spec, Safe

\* Every client gets a gap-free run of the events since it subscribed.
THEOREM NoGaps == Spec => []GapFree
  <1>1. TypeOK /\ BrokerInv => GapFree
    BY DEF BrokerInv, StreamInv, GapFree, TypeOK, Attached, Reached
  <1>2. QED
    BY <1>1, BrokerTypeCorrect, BrokerInvariant, PTL

\* No channel is closed twice or sent to after it was closed.
THEOREM NeverPanics == Spec => []NoPanic
  <1>1. BrokerInv => NoPanic
    BY DEF BrokerInv, StreamInv, NoPanic
  <1>2. QED
    BY <1>1, BrokerInvariant, PTL

\* Only a client that missed an event is told that it is too slow.
THEOREM TooSlowIsTrue == Spec => []TooSlowMissed
  <1>1. TypeOK /\ BrokerInv => TooSlowMissed
    BY DEF BrokerInv, StreamInv, TooSlowMissed, TypeOK
  <1>2. QED
    BY <1>1, BrokerTypeCorrect, BrokerInvariant, PTL

(***************************************************************************)
(* The broker and its handlers implement the safety half of FeedPromise:   *)
(* each of their steps is a step of the promise or changes nothing in it.  *)
(***************************************************************************)
THEOREM ImplementsPromise == Spec => Promise!Safe
  <1>1. Init => Promise!Init
    BY DEF Init, Promise!Init, promisedState
  <1>2. TypeOK /\ BrokerInv /\ [Next]_vars => [Promise!Next]_(Promise!promise)
    <2> SUFFICES ASSUME TypeOK, BrokerInv, [Next]_vars
                 PROVE  [Promise!Next]_(Promise!promise)
      OBVIOUS
    <2> USE DEF Promise!promise
    <2>1. CASE Publish
      BY <2>1 DEF Publish, Promise!Next, Promise!Publish, promisedState
    <2>2. CASE CloseStreams \/ UNCHANGED vars
      BY <2>2 DEF CloseStreams, vars, promisedState
    <2>3. ASSUME NEW s \in Subs, Revoke(s) PROVE [Promise!Next]_(Promise!promise)
      BY <2>3 DEF Revoke, promisedState
    <2>4. ASSUME NEW s \in Subs, Subscribe(s) PROVE [Promise!Next]_(Promise!promise)
      <3>1. promisedState[s] = "new" /\ promisedState' = [promisedState EXCEPT ![s] = "open"]
        BY <2>4 DEF Subscribe, promisedState, TypeOK
      <3>2. Promise!Open(s)
        BY <2>4, <3>1 DEF Subscribe, Promise!Open
      <3>3. QED
        BY <3>2 DEF Promise!Next
    <2>5. ASSUME NEW s \in Subs, Upgrade(s) \/ Receive(s) PROVE [Promise!Next]_(Promise!promise)
      BY <2>5 DEF Upgrade, Receive, promisedState, TypeOK
    <2>6. ASSUME NEW s \in Subs, Written(s) PROVE [Promise!Next]_(Promise!promise)
      <3>1. promisedState[s] = "open" /\ promisedState' = promisedState
        BY <2>6 DEF Written, promisedState, TypeOK
      <3>2. /\ hand[s] = start[s] + Len(got[s]) + 1
            /\ start[s] + Len(got[s]) < published
        <4>1. StreamInv(s) /\ pc[s] = "writing" /\ pc[s] \in Attached /\ InHand(s) = 1
          BY <2>6 DEF Written, BrokerInv, InHand, Attached
        <4>2. /\ published \in Nat /\ start[s] \in Nat /\ Len(got[s]) \in Nat
              /\ Len(buf[s]) \in Nat
          BY DEF TypeOK
        <4>3. Reached(s) <= published
          BY <4>1, <4>2 DEF StreamInv, Reached
        <4>4. QED
          BY <4>1, <4>2, <4>3 DEF StreamInv, Reached
      <3>3. Promise!Deliver(s)
        BY <2>6, <3>1, <3>2 DEF Written, Promise!Deliver
      <3>4. QED
        BY <3>3 DEF Promise!Next
    <2>7. ASSUME NEW s \in Subs, StreamEnds(s) PROVE [Promise!Next]_(Promise!promise)
      <3>1. /\ pc[s] \in {"upgrade", "select", "writing"}
            /\ pc' = [pc EXCEPT ![s] = "ending"]
            /\ published' = published /\ start' = start /\ got' = got
        BY <2>7 DEF StreamEnds, SeesClosed, ClientGone, SeesShutdown, SeesRevoked,
                    UpgradeFails, WriteFails, EndStream
      <3>2. promisedState[s] = "open" /\ promisedState' = [promisedState EXCEPT ![s] = "closed"]
        BY <3>1 DEF promisedState, TypeOK
      <3>3. Promise!Close(s)
        BY <3>1, <3>2 DEF Promise!Close
      <3>4. QED
        BY <3>3 DEF Promise!Next
    <2>8. ASSUME NEW s \in Subs, Unsubscribe(s) PROVE [Promise!Next]_(Promise!promise)
      BY <2>8 DEF Unsubscribe, promisedState, TypeOK
    <2>9. QED
      BY <2>1, <2>2, <2>3, <2>4, <2>5, <2>6, <2>7, <2>8 DEF Next, Stream
  <1>3. QED
    BY <1>1, <1>2, BrokerTypeCorrect, BrokerInvariant, PTL DEF Spec, Safe, Promise!Safe
=============================================================================
