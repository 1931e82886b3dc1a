-------------------------- MODULE IceAuthorityProofs --------------------------
(* The ICE authority file and its lock, for any number of sessions and entries. *)
EXTENDS IceAuthority, RecursionLemmas, SequenceTheorems, TLAPS

\* Only the lock of a dead session gets old, so that breaking it lets nobody into
\* an update that goes on.
OldLockIsDead == lockOld => lock # NoOne /\ stage[lock] = "dead"

IInv ==
  /\ stage \in [Session -> Stage]
  /\ lock \in Session \cup {NoOne}
  /\ UpdatesExclude
  /\ OldLockIsDead

\* No session has begun at first.
LEMMA IceInitIInv == IceInit => IInv
  BY DEF IceInit, IInv, UpdatesExclude, OldLockIsDead, Stage

\* Every step keeps the invariant.
LEMMA IceNextIInv == IInv /\ [IceNext]_iceVars => IInv'
  <1> SUFFICES ASSUME IInv, [IceNext]_iceVars PROVE IInv'
    OBVIOUS
  <1>1. ASSUME NEW s \in Session, ListenSocket(s) PROVE IInv'
    BY <1>1 DEF ListenSocket, GoTo, IInv, UpdatesExclude, OldLockIsDead, Stage
  <1>2. ASSUME NEW s \in Session, IceLock(s) PROVE IInv'
    BY <1>2, IceAssumption DEF IceLock, GoTo, IInv, UpdatesExclude, OldLockIsDead, Stage
  <1>3. ASSUME NEW s \in Session, IceLockTaken(s) PROVE IInv'
    BY <1>3 DEF IceLockTaken, GoTo, IInv, UpdatesExclude, OldLockIsDead, Stage
  <1>4. ASSUME NEW s \in Session, ReadFile(s) PROVE IInv'
    BY <1>4 DEF ReadFile, GoTo, IInv, UpdatesExclude, OldLockIsDead, Stage
  <1>5. ASSUME NEW s \in Session, NoFileToWrite(s) PROVE IInv'
    BY <1>5 DEF NoFileToWrite, GoTo, IInv, UpdatesExclude, OldLockIsDead, Stage
  <1>6. ASSUME NEW s \in Session, WriteBuffer(s) PROVE IInv'
    BY <1>6 DEF WriteBuffer, IInv, UpdatesExclude, OldLockIsDead
  <1>7. ASSUME NEW s \in Session, CloseFile(s) PROVE IInv'
    BY <1>7 DEF CloseFile, GoTo, IInv, UpdatesExclude, OldLockIsDead, Stage
  <1>8. ASSUME NEW s \in Session, Unlock(s) PROVE IInv'
    BY <1>8 DEF Unlock, GoTo, IInv, UpdatesExclude, OldLockIsDead, Stage
  <1>9. ASSUME NEW s \in Session, Die(s) PROVE IInv'
    BY <1>9 DEF Die, GoTo, IInv, UpdatesExclude, OldLockIsDead, Stage
  <1>10. CASE LockGetsOld
    BY <1>10 DEF LockGetsOld, IInv, UpdatesExclude, OldLockIsDead
  <1>11. ASSUME NEW s \in Session, IceLockError(s) PROVE IInv'
    BY <1>11 DEF IceLockError, GoTo, IInv, UpdatesExclude, OldLockIsDead, Stage
  <1>12. CASE UNCHANGED iceVars
    BY <1>12 DEF iceVars, IInv, UpdatesExclude, OldLockIsDead
  <1> QED BY <1>1, <1>2, <1>3, <1>4, <1>5, <1>6, <1>7, <1>8, <1>9, <1>10, <1>11, <1>12
          DEF IceNext, SessionStep

\* However many sessions a user has and whenever they die, one at most is at the
\* authority file (update_ice_authority).
THEOREM OneUpdateAtATime == IceSpec => []UpdatesExclude
  <1>1. IInv => UpdatesExclude
    BY DEF IInv
  <1> QED BY <1>1, IceInitIInv, IceNextIInv, PTL DEF IceSpec

-----------------------------------------------------------------------------
(* The entries that are kept, and what a client finds among them.            *)

EntryNotOf(nets) == {e \in Entry : e.net \notin nets}

\* The loop over the entries of the file (XsmpServer::update_ice_authority).
LEMMA WithoutLoops ==
  ASSUME NEW f \in Seq(Entry), NEW nets
  PROVE  \E u \in [0 .. Len(f) -> Seq(EntryNotOf(nets))] :
           /\ u[0] = <<>>
           /\ \A k \in 0 .. Len(f) - 1 :
                u[k + 1] = IF f[k + 1].net \in nets THEN u[k] ELSE Append(u[k], f[k + 1])
           /\ Without(f, nets) = u[Len(f)]
  <1> DEFINE n == Len(f)
             D == Seq(EntryNotOf(nets))
             Next1(t, k) == IF f[k].net \in nets THEN t ELSE Append(t, f[k])
             F(g) == [k \in 0 .. n |-> IF k = 0 THEN <<>>
                                       ELSE IF f[k].net \in nets THEN g[k - 1]
                                       ELSE Append(g[k - 1], f[k])]
             step == [k \in 1 .. n |-> [t \in D |-> Next1(t, k)]]
             u == CHOOSE g : g = F(g)
  <1>1. n \in Nat /\ \A k \in 1 .. n : f[k] \in Entry
    OBVIOUS
  <1>2. \A t \in D, k \in 1 .. n : Next1(t, k) \in D
    BY <1>1 DEF EntryNotOf
  <1>3. <<>> \in D
    OBVIOUS
  <1>4. step \in Steps(D, n)
    <2> HIDE DEF Next1, D
    <2> QED BY <1>2 DEF Steps
  <1>5. PICK g \in [0 .. n -> D] :
          g[0] = <<>> /\ \A k \in 1 .. n : g[k] = step[k][g[k - 1]]
    <2> HIDE DEF step, n, D
    <2>1. Results(D, <<>>, n, step) # {}
      BY <1>1, <1>3, <1>4, LoopHasResults
    <2> QED BY <2>1 DEF Results
  <1> HIDE DEF D
  <1>6. ASSUME NEW k \in 1 .. n
        PROVE  g[k] = Next1(g[k - 1], k)
    <2>1. g[k - 1] \in D /\ g[k] = step[k][g[k - 1]]
      <3> HIDE DEF step, n
      <3>1. k - 1 \in 0 .. n
        BY <1>1
      <3> QED BY <1>5, <3>1
    <2> HIDE DEF Next1
    <2> QED BY <2>1
  <1>7. g = F(g)
    <2> HIDE DEF step, n
    <2>1. \A k \in 0 .. n : g[k] = IF k = 0 THEN <<>> ELSE Next1(g[k - 1], k)
      <3> HIDE DEF Next1
      <3>1. \A k \in 0 .. n : k # 0 => k \in 1 .. n
        BY <1>1
      <3> QED BY <1>5, <1>6, <3>1
    <2> QED BY <2>1
  <1>8. u = F(u)
    <2> HIDE DEF F
    <2> QED BY <1>7
  <1>9. Without(f, nets) = u[n]
    BY DEF Without
  <1> HIDE DEF u, n, step
  <1>10. u[0] = <<>> /\ \A k \in 0 .. n - 1 : u[k + 1] = Next1(u[k], k + 1)
    <2>1. \A k \in 0 .. n : u[k] = IF k = 0 THEN <<>> ELSE Next1(u[k - 1], k)
      BY <1>8
    <2>2. \A k \in 0 .. n - 1 : k + 1 \in 0 .. n /\ k + 1 # 0 /\ (k + 1) - 1 = k
      BY <1>1
    <2> HIDE DEF Next1
    <2> QED BY <1>1, <2>1, <2>2
  <1> HIDE DEF F
  <1>11. ASSUME NEW k \in 0 .. n PROVE u[k] \in D
    <2> DEFINE S == {j \in 0 .. n : u[j] \in D}
    <2> HIDE DEF Next1
    <2>1. 0 \in S
      BY <1>1, <1>3, <1>10
    <2>2. ASSUME NEW j \in 0 .. k - 1, j \in S PROVE j + 1 \in S
      <3>1. j \in 0 .. n - 1 /\ j + 1 \in 1 .. n /\ j + 1 \in 0 .. n
        BY <1>1
      <3> QED BY <1>2, <1>10, <2>2, <3>1
    <2> HIDE DEF S
    <2>3. S \in SUBSET Nat
      BY DEF S
    <2>4. k \in S
      BY <1>1, <2>1, <2>2, <2>3, SetInduction
    <2> QED BY <2>4 DEF S
  <1>12. u \in [0 .. n -> D]
    BY <1>8, <1>11 DEF F
  <1> QED BY <1>9, <1>10, <1>12 DEF n, D

\* What is kept has none of the network ids that are dropped, and all others are found
\* in it as before.
LEMMA WithoutKeepsFirst ==
  ASSUME NEW f \in Seq(Entry), NEW nets
  PROVE  /\ Without(f, nets) \in Seq(EntryNotOf(nets))
         /\ \A net, proto, s : net \notin nets /\ FirstIs(f, net, proto, s)
              => FirstIs(Without(f, nets), net, proto, s)
  <1> DEFINE n == Len(f)
             D == Seq(EntryNotOf(nets))
  <1>1. n \in Nat /\ DOMAIN f = 1 .. n /\ \A k \in 1 .. n : f[k] \in Entry
    OBVIOUS
  <1>2. PICK u \in [0 .. n -> D] :
          /\ u[0] = <<>>
          /\ \A k \in 0 .. n - 1 :
               u[k + 1] = IF f[k + 1].net \in nets THEN u[k] ELSE Append(u[k], f[k + 1])
          /\ Without(f, nets) = u[n]
    BY WithoutLoops
  <1> HIDE DEF n
  <1>3. Without(f, nets) \in D
    BY <1>1, <1>2
  <1>4. ASSUME NEW net, NEW proto, NEW s, net \notin nets, FirstIs(f, net, proto, s)
        PROVE  FirstIs(Without(f, nets), net, proto, s)
    <2> DEFINE Sought == EntryFor(net, proto)
    <2>1. PICK m \in 1 .. n :
            /\ f[m] \in Sought /\ f[m].by = s
            /\ \A j \in 1 .. n : f[j] \in Sought => m <= j
      BY <1>1, <1>4 DEF FirstIs
    <2> DEFINE Found == {g \in D : \E i \in DOMAIN g :
                           /\ g[i] \in Sought /\ g[i].by = s
                           /\ \A j \in DOMAIN g : g[j] \in Sought => i <= j}
               NoneSought == {g \in D : \A i \in DOMAIN g : g[i] \notin Sought}
               S == {k \in 0 .. n : u[k] \in IF k < m THEN NoneSought ELSE Found}
    <2>2. 0 \in S
      BY <1>1, <1>2
    <2>3. ASSUME NEW k \in 0 .. n - 1, k \in S
          PROVE  k + 1 \in S
      <3>1. k + 1 \in 1 .. n /\ k + 1 \in 0 .. n /\ k \in 0 .. n /\ k \in Nat /\ m \in Nat
        BY <1>1
      <3>5. u[k] \in IF k < m THEN NoneSought ELSE Found
        <4> HIDE DEF Found, NoneSought
        <4> QED BY <2>3
      <3>2. u[k] \in D /\ f[k + 1] \in Entry
        BY <1>1, <1>2, <3>1
      <3>6. u[k + 1] \in D
        <4> HIDE DEF D
        <4> QED BY <1>2, <3>1
      <3>3. CASE f[k + 1].net \in nets
        <4>1. u[k + 1] = u[k] /\ k + 1 # m
          BY <1>2, <1>4, <2>1, <3>3 DEF EntryFor
        <4>2. k + 1 < m <=> k < m
          BY <3>1, <4>1
        <4> HIDE DEF Found, NoneSought
        <4> QED BY <2>3, <3>1, <4>1, <4>2
      <3>4. CASE f[k + 1].net \notin nets
        <4> DEFINE len == Len(u[k])
        <4>1. u[k + 1] = Append(u[k], f[k + 1])
          BY <1>2, <3>4
        <4>2. /\ len \in Nat /\ DOMAIN u[k] = 1 .. len /\ DOMAIN u[k + 1] = 1 .. len + 1
              /\ u[k + 1][len + 1] = f[k + 1]
              /\ \A i \in 1 .. len : u[k + 1][i] = u[k][i]
          BY <3>2, <4>1
        <4> HIDE DEF len, Sought, D
        <4>3. CASE k + 1 < m
          <5>1. f[k + 1] \notin Sought
            BY <2>1, <3>1, <4>3
          <5>2. \A i \in 1 .. len : u[k][i] \notin Sought
            <6>1. u[k] \in NoneSought
              <7> HIDE DEF Found, NoneSought
              <7> QED BY <3>1, <3>5, <4>3
            <6> QED BY <4>2, <6>1
          <5>3. u[k + 1] \in NoneSought
            <6>1. \A i \in 1 .. len + 1 : u[k + 1][i] \notin Sought
              <7> SUFFICES ASSUME NEW i \in 1 .. len + 1 PROVE u[k + 1][i] \notin Sought
                OBVIOUS
              <7>1. i \in 1 .. len \/ i = len + 1
                BY <4>2
              <7> QED BY <4>2, <5>1, <5>2, <7>1
            <6>2. DOMAIN u[k + 1] = 1 .. len + 1
              BY <4>2
            <6> QED BY <3>6, <6>1, <6>2
          <5> HIDE DEF Found, NoneSought
          <5> QED BY <3>1, <4>3, <5>3
        <4>4. CASE k + 1 = m
          <5>1. \A i \in 1 .. len : u[k][i] \notin Sought
            <6>1. u[k] \in NoneSought
              <7> HIDE DEF Found, NoneSought
              <7> QED BY <3>1, <3>5, <4>4
            <6> QED BY <4>2, <6>1
          <5>2. ASSUME NEW i \in 1 .. len + 1, u[k + 1][i] \in Sought
                PROVE  len + 1 <= i
            <6>1. i \notin 1 .. len
              BY <4>2, <5>1, <5>2
            <6> QED BY <4>2, <6>1
          <5>3. u[k + 1][len + 1] \in Sought /\ u[k + 1][len + 1].by = s
            BY <2>1, <4>2, <4>4
          <5>4. u[k + 1] \in Found
            BY <3>6, <4>2, <5>2, <5>3
          <5> HIDE DEF Found, NoneSought
          <5> QED BY <3>1, <4>4, <5>4
        <4>5. CASE k + 1 > m
          <5>1. PICK i \in 1 .. len : /\ u[k][i] \in Sought /\ u[k][i].by = s
                                      /\ \A j \in 1 .. len : u[k][j] \in Sought => i <= j
            <6>1. u[k] \in Found
              <7> HIDE DEF Found, NoneSought
              <7> QED BY <3>1, <3>5, <4>5
            <6> QED BY <4>2, <6>1
          <5>2. ASSUME NEW j \in 1 .. len + 1, u[k + 1][j] \in Sought
                PROVE  i <= j
            <6>1. CASE j \in 1 .. len
              BY <4>2, <5>1, <5>2, <6>1
            <6>2. CASE j = len + 1
              BY <4>2, <6>2
            <6> QED BY <4>2, <6>1, <6>2
          <5>3. i \in 1 .. len + 1 /\ u[k + 1][i] \in Sought /\ u[k + 1][i].by = s
            BY <4>2, <5>1
          <5>4. u[k + 1] \in Found
            BY <3>6, <4>2, <5>2, <5>3
          <5> HIDE DEF Found, NoneSought
          <5> QED BY <3>1, <4>5, <5>4
        <4> QED BY <3>1, <4>3, <4>4, <4>5
      <3> QED BY <3>3, <3>4
    <2>4. S \in SUBSET Nat
      OBVIOUS
    <2> HIDE DEF S
    <2>5. n \in S
      BY <1>1, <2>2, <2>3, <2>4, SetInduction
    <2>6. u[n] \in Found
      BY <1>1, <2>1, <2>5 DEF S
    <2> QED BY <1>2, <2>6 DEF FirstIs
  <1> QED BY <1>3, <1>4

\* The places of two sequences in one.
LEMMA ConcatPlaces ==
  ASSUME NEW S, NEW f \in Seq(S), NEW g \in Seq(S)
  PROVE  /\ Len(f) \in Nat /\ DOMAIN (f \o g) = 1 .. Len(f) + Len(g)
         /\ \A i \in 1 .. Len(f) : (f \o g)[i] = f[i]
         /\ \A i \in 1 .. Len(g) : (f \o g)[Len(f) + i] = g[i]
  OBVIOUS

\* What follows an entry does not matter to who finds it.
LEMMA ConcatKeepsFirst ==
  ASSUME NEW f \in Seq(Entry), NEW g \in Seq(Entry), NEW net, NEW proto, NEW s,
         FirstIs(f, net, proto, s)
  PROVE  FirstIs(f \o g, net, proto, s)
  <1> DEFINE h == f \o g
             Sought == EntryFor(net, proto)
  <1>1. /\ Len(f) \in Nat /\ Len(g) \in Nat /\ DOMAIN f = 1 .. Len(f)
        /\ DOMAIN h = 1 .. Len(f) + Len(g)
        /\ \A i \in 1 .. Len(f) : h[i] = f[i]
    OBVIOUS
  <1> HIDE DEF h, Sought
  <1>2. PICK i \in 1 .. Len(f) :
          /\ f[i] \in Sought /\ f[i].by = s
          /\ \A j \in 1 .. Len(f) : f[j] \in Sought => i <= j
    BY <1>1 DEF FirstIs, Sought
  <1>3. \A j \in 1 .. Len(f) + Len(g) : h[j] \in Sought => i <= j
    <2> SUFFICES ASSUME NEW j \in 1 .. Len(f) + Len(g), h[j] \in Sought PROVE i <= j
      OBVIOUS
    <2>1. CASE j \in 1 .. Len(f)
      BY <1>1, <1>2, <2>1
    <2>2. CASE j \notin 1 .. Len(f)
      BY <1>1, <1>2, <2>2
    <2> QED BY <2>1, <2>2
  <1>4. i \in DOMAIN h /\ h[i] \in Sought /\ h[i].by = s
    BY <1>1, <1>2
  <1> QED BY <1>1, <1>3, <1>4 DEF FirstIs, Sought, h

\* The entries of a session are found behind those of others
\* (XsmpServer::create_and_store_auth_entry).
LEMMA OwnEntriesFound ==
  ASSUME NEW s \in Session, NEW f \in Seq(EntryNotOf({NoNet, NetOf[s]}))
  PROVE  /\ f \o OwnEntries(s) \in Seq({e \in Entry : e.net # NoNet})
         /\ Finds(f \o OwnEntries(s), s)
  <1> DEFINE own == OwnEntries(s)
             h == f \o own
             n == Len(f)
             Id == {e \in Entry : e.net # NoNet}
             ice == [proto |-> "ICE", net |-> NetOf[s], by |-> s]
             xsmp == [proto |-> "XSMP", net |-> NetOf[s], by |-> s]
  <1>8. ice \in Id /\ xsmp \in Id
    BY IceAssumption DEF Entry, Protocol
  <1>9. /\ ice \in EntryFor(NetOf[s], "ICE") /\ ice.by = s
        /\ xsmp \in EntryFor(NetOf[s], "XSMP") /\ xsmp.by = s
        /\ ice \notin EntryFor(NetOf[s], "XSMP")
    BY <1>8 DEF EntryFor
  <1>10. own = <<ice, xsmp>>
    BY DEF OwnEntries
  <1> HIDE DEF own, ice, xsmp, Id
  <1>1. own \in Seq(Id) /\ Len(own) = 2 /\ own[1] = ice /\ own[2] = xsmp
    BY <1>8, <1>10
  <1>2. f \in Seq(Id)
    <2> DEFINE Others == EntryNotOf({NoNet, NetOf[s]})
    <2>1. Others \subseteq Id
      BY DEF EntryNotOf, Id
    <2>2. f \in Seq(Others)
      OBVIOUS
    <2> HIDE DEF Others
    <2> QED BY <2>1, <2>2
  <1>3. \A i \in 1 .. n : \A proto : f[i] \notin EntryFor(NetOf[s], proto)
    BY DEF EntryNotOf, EntryFor
  <1>4. h \in Seq(Id)
    BY <1>1, <1>2
  <1>5. /\ n \in Nat /\ DOMAIN h = 1 .. n + 2
        /\ \A i \in 1 .. n : h[i] = f[i]
        /\ h[n + 1] = ice /\ h[n + 2] = xsmp
    <2>1. /\ n \in Nat /\ DOMAIN h = 1 .. n + Len(own)
          /\ \A i \in 1 .. n : h[i] = f[i]
          /\ \A i \in 1 .. Len(own) : h[n + i] = own[i]
      <3>1. f \in Seq(Id) /\ own \in Seq(Id)
        BY <1>1, <1>2
      <3> HIDE DEF h, n
      <3>2. /\ Len(f) \in Nat /\ DOMAIN (f \o own) = 1 .. Len(f) + Len(own)
            /\ \A i \in 1 .. Len(f) : (f \o own)[i] = f[i]
            /\ \A i \in 1 .. Len(own) : (f \o own)[Len(f) + i] = own[i]
        BY <3>1, ConcatPlaces
      <3> QED BY <3>2 DEF h, n
    <2>2. 1 \in 1 .. Len(own) /\ 2 \in 1 .. Len(own)
      BY <1>1
    <2> HIDE DEF h, n
    <2>3. h[n + 1] = own[1] /\ h[n + 2] = own[2]
      BY <2>1, <2>2
    <2>4. DOMAIN h = 1 .. n + 2
      BY <1>1, <2>1
    <2> QED BY <1>1, <2>1, <2>3, <2>4
  <1> HIDE DEF h, n
  <1>6. FirstIs(h, NetOf[s], "ICE", s)
    <2>1. ASSUME NEW j \in 1 .. n + 2, h[j] \in EntryFor(NetOf[s], "ICE")
          PROVE  n + 1 <= j
      <3>1. j \notin 1 .. n
        BY <1>3, <1>5, <2>1
      <3> QED BY <1>5, <3>1
    <2>2. n + 1 \in 1 .. n + 2
      BY <1>5
    <2> QED BY <1>5, <1>9, <2>1, <2>2 DEF FirstIs
  <1>7. FirstIs(h, NetOf[s], "XSMP", s)
    <2>1. ASSUME NEW j \in 1 .. n + 2, h[j] \in EntryFor(NetOf[s], "XSMP")
          PROVE  n + 2 <= j
      <3>1. j \notin 1 .. n /\ j # n + 1
        BY <1>3, <1>5, <1>9, <2>1
      <3> QED BY <1>5, <3>1
    <2>2. n + 2 \in 1 .. n + 2
      BY <1>5
    <2> QED BY <1>5, <1>9, <2>1, <2>2 DEF FirstIs
  <1> QED BY <1>4, <1>6, <1>7 DEF Finds, Protocol, h, own, Id

\* What a session writes has its own cookies, and those of every other that a client
\* would find in the file that it read.
LEMMA KeptAndOwnFound ==
  ASSUME NEW s \in Session, NEW f \in Seq(Entry)
  PROVE  LET es == Kept(s, f) \o OwnEntries(s)
         IN  /\ es \in Seq({e \in Entry : e.net # NoNet})
             /\ Finds(es, s)
             /\ \A o \in Session : NetOf[o] # NetOf[s] /\ Finds(f, o) => Finds(es, o)
  <1> DEFINE nets == {NoNet, NetOf[s]}
             kept == Kept(s, f)
  <1>1. kept = Without(f, nets)
    BY DEF Kept
  <1>2. kept \in Seq(EntryNotOf(nets))
    BY <1>1, WithoutKeepsFirst
  <1>3. /\ kept \o OwnEntries(s) \in Seq({e \in Entry : e.net # NoNet})
        /\ Finds(kept \o OwnEntries(s), s)
    BY <1>2, OwnEntriesFound
  <1>4. kept \in Seq(Entry) /\ OwnEntries(s) \in Seq(Entry)
    <2>1. EntryNotOf(nets) \subseteq Entry
      BY DEF EntryNotOf
    <2>2. kept \in Seq(Entry)
      <3> HIDE DEF kept, nets
      <3> QED BY <1>2, <2>1
    <2> QED BY <2>2 DEF OwnEntries, Entry, Protocol
  <1>5. ASSUME NEW o \in Session, NetOf[o] # NetOf[s], Finds(f, o), NEW proto \in Protocol
        PROVE  FirstIs(kept \o OwnEntries(s), NetOf[o], proto, o)
    <2>1. NetOf[o] \notin nets /\ FirstIs(f, NetOf[o], proto, o)
      BY <1>5, IceAssumption DEF Finds
    <2>2. FirstIs(kept, NetOf[o], proto, o)
      <3> HIDE DEF kept, nets
      <3> QED BY <1>1, <2>1, WithoutKeepsFirst
    <2> HIDE DEF kept
    <2> QED BY <1>4, <2>2, ConcatKeepsFirst
  <1> QED BY <1>3, <1>5 DEF Finds

-----------------------------------------------------------------------------
(* Types.                                                                    *)

\* A session that waits for the lock may try again.
RetriesLeft == \A s \in Session : stage[s] \in {"off", "lock"} => tries[s] < LockRetries

\* Who has written a part of its entries is at it, or died.
WritersWrite == \A s \in Session : written[s] > 0 => stage[s] \in {"write", "dead"}

\* There is a file to write to.
FileThere == \A s \in Session : stage[s] = "write" => file # NoFile

TInv == IceTypeOK /\ RetriesLeft /\ WritersWrite /\ FileThere

Writable == {e \in Entry : e.net # NoNet}

\* At first there are no entries to write, and a file or none.
LEMMA IceInitTInv == IceInit => TInv
  <1> SUFFICES ASSUME IceInit PROVE TInv
    OBVIOUS
  <1>1. file \in Seq(Entry) \cup {NoFile} /\ LockRetries \in Nat \ {0}
    BY IceAssumption DEF IceInit
  <1>2. <<>> \in Seq(Writable) /\ Len(<<>>) = 0
    OBVIOUS
  <1>3. entries \in [Session -> Seq(Writable)]
    <2> HIDE DEF Writable
    <2> QED BY <1>2 DEF IceInit
  <1>4. /\ stage \in [Session -> Stage] /\ \A s \in Session : stage[s] = "off"
        /\ tries \in [Session -> 0 .. LockRetries] /\ \A s \in Session : tries[s] = 0
        /\ written \in [Session -> Nat] /\ \A s \in Session : written[s] = 0
    BY <1>1 DEF IceInit, Stage
  <1>5. \A s \in Session : written[s] <= Len(entries[s])
    <2>1. \A s \in Session : entries[s] = <<>>
      BY DEF IceInit
    <2>2. 0 <= 0
      OBVIOUS
    <2> QED BY <1>2, <1>4, <2>1, <2>2
  <1>6. /\ expects \subseteq Session /\ lock \in Session \cup {NoOne}
        /\ lockOld \in BOOLEAN /\ lost \subseteq Session
    BY DEF IceInit
  <1> QED BY <1>1, <1>3, <1>4, <1>5, <1>6
          DEF TInv, IceTypeOK, RetriesLeft, WritersWrite, FileThere, Writable

\* What a reader may get after a write is a file.
LEMMA OverwrittenIsFile ==
  ASSUME TInv, NEW s \in Session, stage[s] = "write",
         NEW n \in Nat, n <= Len(entries[s]), NEW f \in Overwritten(s, n)
  PROVE  f \in Seq(Entry) /\ f # NoFile
  <1>1. file \in Seq(Entry)
    BY DEF TInv, IceTypeOK, FileThere
  <1>2. entries[s] \in Seq(Writable)
    <2>1. entries \in [Session -> Seq(Writable)]
      BY DEF TInv, IceTypeOK, Writable
    <2> HIDE DEF Writable
    <2> QED BY <2>1
  <1>3. entries[s] \in Seq(Entry)
    <2>1. Writable \subseteq Entry
      BY DEF Writable
    <2> HIDE DEF Writable
    <2> QED BY <1>2, <2>1
  <1>4. SubSeq(entries[s], 1, n) \in Seq(Entry)
    BY <1>3
  <1>5. PICK tail \in {<<>>, SubSeq(file, n + 1, Len(file))} :
          f = SubSeq(entries[s], 1, n) \o tail
    BY DEF Overwritten
  <1>6. tail \in Seq(Entry)
    <2>1. Len(file) \in Nat /\ \A i \in n + 1 .. Len(file) : file[i] \in Entry
      BY <1>1
    <2>2. SubSeq(file, n + 1, Len(file)) \in Seq(Entry)
      BY <1>1, <2>1, SubSeqProperties
    <2>3. <<>> \in Seq(Entry)
      OBVIOUS
    <2> QED BY <1>5, <2>2, <2>3
  <1>7. f \in Seq(Entry)
    BY <1>4, <1>5, <1>6
  <1> QED BY <1>7, IceAssumption

\* Every step keeps the types.
LEMMA IceNextTInv == TInv /\ [IceNext]_iceVars => TInv'
  <1> SUFFICES ASSUME TInv, [IceNext]_iceVars PROVE TInv'
    OBVIOUS
  <1> DEFINE Files == Seq(Entry) \cup {NoFile}
             Lists == Seq(Writable)
  <1>1. /\ stage \in [Session -> Stage] /\ tries \in [Session -> 0 .. LockRetries]
        /\ entries \in [Session -> Lists] /\ written \in [Session -> Nat]
        /\ \A s \in Session : written[s] <= Len(entries[s])
        /\ expects \subseteq Session /\ lock \in Session \cup {NoOne}
        /\ lockOld \in BOOLEAN /\ file \in Files /\ lost \subseteq Session
        /\ RetriesLeft /\ WritersWrite /\ FileThere
    BY DEF TInv, IceTypeOK, Writable
  <1>2. LockRetries \in Nat \ {0} /\ Buffer \in Nat \ {0}
    BY IceAssumption
  <1>3. ASSUME /\ stage' \in [Session -> Stage] /\ tries' \in [Session -> 0 .. LockRetries]
               /\ entries' \in [Session -> Lists] /\ written' \in [Session -> Nat]
               /\ \A s \in Session : written'[s] <= Len(entries'[s])
               /\ expects' \subseteq Session /\ lock' \in Session \cup {NoOne}
               /\ lockOld' \in BOOLEAN /\ file' \in Files /\ lost' \subseteq Session
               /\ RetriesLeft' /\ WritersWrite' /\ FileThere'
        PROVE  TInv'
    BY <1>3 DEF TInv, IceTypeOK, Writable
  <1> HIDE DEF Files, Lists
  <1>4. ASSUME NEW s \in Session, ListenSocket(s) PROVE TInv'
    BY <1>1, <1>3, <1>4
       DEF ListenSocket, GoTo, Stage, RetriesLeft, WritersWrite, FileThere
  <1>5. ASSUME NEW s \in Session, IceLock(s) PROVE TInv'
    BY <1>1, <1>3, <1>5
       DEF IceLock, GoTo, Stage, RetriesLeft, WritersWrite, FileThere
  <1>6. ASSUME NEW s \in Session, IceLockTaken(s) PROVE TInv'
    <2>1. tries[s] < LockRetries /\ tries[s] \in Nat
      BY <1>1, <1>2, <1>6 DEF IceLockTaken, RetriesLeft
    <2>2. /\ tries' \in [Session -> 0 .. LockRetries]
          /\ stage' \in [Session -> Stage] /\ UNCHANGED <<entries, written, expects, file>>
          /\ UNCHANGED <<lock, lockOld, lost>>
      BY <1>1, <1>2, <1>6, <2>1 DEF IceLockTaken, GoTo, Stage
    <2>3. RetriesLeft'
      BY <1>1, <1>2, <1>6, <2>1 DEF IceLockTaken, GoTo, RetriesLeft
    <2>4. WritersWrite' /\ FileThere'
      BY <1>1, <1>6 DEF IceLockTaken, GoTo, WritersWrite, FileThere
    <2> QED BY <1>1, <1>3, <2>2, <2>3, <2>4
  <1>7. ASSUME NEW s \in Session, ReadFile(s) PROVE TInv'
    <2> DEFINE f == IF file = NoFile THEN <<>> ELSE file
               es == Kept(s, f) \o OwnEntries(s)
    <2>1. f \in Seq(Entry)
      BY <1>1 DEF Files
    <2>2. es \in Lists
      BY <2>1, KeptAndOwnFound DEF Lists, Writable
    <2>3. /\ file' = f /\ entries' = [entries EXCEPT ![s] = es]
          /\ expects' = expects \cup {s} /\ stage[s] = "update"
          /\ stage' = [stage EXCEPT ![s] = "write"]
          /\ UNCHANGED <<tries, written, lock, lockOld, lost>>
      BY <1>7 DEF ReadFile, GoTo
    <2>4. f # NoFile /\ f \in Files
      BY <2>1, IceAssumption DEF Files
    <2>5. Len(es) \in Nat
      <3>1. es \in Seq(Writable)
        BY <2>2 DEF Lists
      <3> HIDE DEF es, Writable
      <3> QED BY <3>1
    <2> HIDE DEF es, f
    <2>6. written[s] = 0
      <3>1. written[s] \in Nat /\ stage[s] = "update"
        BY <1>1, <2>3
      <3>2. ~(written[s] > 0)
        BY <1>1, <3>1 DEF WritersWrite
      <3> QED BY <3>1, <3>2
    <2>7. \A o \in Session : written'[o] <= Len(entries'[o])
      BY <1>1, <2>3, <2>5, <2>6
    <2>8. RetriesLeft' /\ WritersWrite' /\ FileThere'
      BY <1>1, <2>3, <2>4 DEF RetriesLeft, WritersWrite, FileThere
    <2>9. stage' \in [Session -> Stage] /\ entries' \in [Session -> Lists]
      BY <1>1, <2>2, <2>3 DEF Stage
    <2> QED BY <1>1, <1>3, <2>3, <2>4, <2>7, <2>8, <2>9
  <1>8. ASSUME NEW s \in Session, NoFileToWrite(s) PROVE TInv'
    BY <1>1, <1>3, <1>8
       DEF NoFileToWrite, GoTo, Stage, RetriesLeft, WritersWrite, FileThere
  <1>9. ASSUME NEW s \in Session, WriteBuffer(s) PROVE TInv'
    <2>1. /\ stage[s] = "write" /\ written[s] + Buffer < Len(entries[s])
          /\ written' = [written EXCEPT ![s] = written[s] + Buffer]
          /\ file' \in Overwritten(s, written[s] + Buffer)
          /\ UNCHANGED <<stage, tries, entries, expects, lock, lockOld, lost>>
      BY <1>9 DEF WriteBuffer
    <2>2. entries[s] \in Lists /\ Len(entries[s]) \in Nat /\ written[s] \in Nat
      <3>1. entries[s] \in Lists /\ written[s] \in Nat
        BY <1>1
      <3>2. entries[s] \in Seq(Writable)
        BY <3>1 DEF Lists
      <3> HIDE DEF Writable
      <3> QED BY <3>1, <3>2
    <2>3. written[s] + Buffer \in Nat /\ written[s] + Buffer <= Len(entries[s])
      BY <1>2, <2>1, <2>2
    <2>4. file' \in Seq(Entry) /\ file' # NoFile
      BY <2>1, <2>3, OverwrittenIsFile
    <2>5. /\ written' \in [Session -> Nat]
          /\ \A o \in Session : written'[o] <= Len(entries'[o])
      BY <1>1, <2>1, <2>3
    <2>6. RetriesLeft' /\ WritersWrite' /\ FileThere'
      BY <1>1, <2>1, <2>4 DEF RetriesLeft, WritersWrite, FileThere
    <2>7. file' \in Files
      BY <2>4 DEF Files
    <2> QED BY <1>1, <1>3, <2>1, <2>5, <2>6, <2>7
  <1>10. ASSUME NEW s \in Session, CloseFile(s) PROVE TInv'
    <2>1. /\ stage[s] = "write" /\ file' \in Overwritten(s, Len(entries[s]))
          /\ written' = [written EXCEPT ![s] = 0] /\ entries' = [entries EXCEPT ![s] = <<>>]
          /\ stage' = [stage EXCEPT ![s] = "unlock"]
          /\ UNCHANGED <<tries, expects, lock, lockOld, lost>>
      BY <1>10 DEF CloseFile, GoTo
    <2>2. Len(entries[s]) \in Nat /\ <<>> \in Lists /\ Len(<<>>) = 0
      <3>1. entries[s] \in Lists
        BY <1>1
      <3>2. entries[s] \in Seq(Writable)
        BY <3>1 DEF Lists
      <3> HIDE DEF Writable
      <3> QED BY <3>2 DEF Lists
    <2>3. file' \in Seq(Entry) /\ file' # NoFile
      BY <2>1, <2>2, OverwrittenIsFile
    <2>4. /\ written' \in [Session -> Nat] /\ entries' \in [Session -> Lists]
          /\ \A o \in Session : written'[o] <= Len(entries'[o])
          /\ stage' \in [Session -> Stage]
      BY <1>1, <2>1, <2>2 DEF Stage
    <2>5. RetriesLeft' /\ WritersWrite' /\ FileThere'
      BY <1>1, <2>1, <2>3 DEF RetriesLeft, WritersWrite, FileThere
    <2>6. file' \in Files
      BY <2>3 DEF Files
    <2> QED BY <1>1, <1>3, <2>1, <2>4, <2>5, <2>6
  <1>11. ASSUME NEW s \in Session, Unlock(s) PROVE TInv'
    BY <1>1, <1>3, <1>11
       DEF Unlock, GoTo, Stage, RetriesLeft, WritersWrite, FileThere
  <1>12. ASSUME NEW s \in Session, Die(s) PROVE TInv'
    BY <1>1, <1>3, <1>12
       DEF Die, CutOff, GoTo, Stage, RetriesLeft, WritersWrite, FileThere
  <1>13. CASE LockGetsOld
    BY <1>1, <1>3, <1>13
       DEF LockGetsOld, RetriesLeft, WritersWrite, FileThere
  <1>14. ASSUME NEW s \in Session, IceLockError(s) PROVE TInv'
    BY <1>1, <1>3, <1>14
       DEF IceLockError, GoTo, Stage, RetriesLeft, WritersWrite, FileThere
  <1>15. CASE UNCHANGED iceVars
    BY <1>1, <1>3, <1>15
       DEF iceVars, RetriesLeft, WritersWrite, FileThere
  <1> QED BY <1>4, <1>5, <1>6, <1>7, <1>8, <1>9, <1>10, <1>11, <1>12, <1>13, <1>14, <1>15
          DEF IceNext, SessionStep

\* Whatever a file held and whoever wrote to it, it is one of authority entries, no
\* session writes more than it has, and none tries more often than
\* KSM_ICE_AUTH_RETRIES (XsmpServer::update_ice_authority, listen_socket).
THEOREM AuthorityTyped == IceSpec => []IceTypeOK
  <1>1. TInv => IceTypeOK
    BY DEF TInv
  <1> QED BY <1>1, IceInitTInv, IceNextTInv, PTL DEF IceSpec

-----------------------------------------------------------------------------
(* Who finds which cookie.                                                   *)

\* Of the sessions with one network id, one at most is not over.
OneOwner ==
  \A s, o \in Session : s # o /\ NetOf[s] = NetOf[o] /\ stage[s] \notin {"off", "dead"}
    => stage[o] \in {"off", "dead"}

\* A session gives libICE its cookies on its way to writing them.
ExpectingIsOn == \A s \in expects : stage[s] \notin {"off", "lock", "update", "deaf"}

\* Who gave libICE cookies that are in the file, as far as no death cut them off.
Served == {s \in expects \ lost : stage[s] \in {"unlock", "serve"}}

\* What a session is about to write has its cookies, and those of all who wrote before.
WritersFind ==
  \A w \in Session : stage[w] = "write" =>
    /\ Finds(entries[w], w)
    /\ \A s \in Served : Finds(entries[w], s)

\* The file has the cookies of all who wrote to it and live.
ServedFind == ~HalfWritten => \A s \in Served : file # NoFile /\ Finds(file, s)

AInv == IInv /\ TInv /\ OneOwner /\ ExpectingIsOn /\ WritersFind /\ ServedFind

\* At first nobody serves, and nobody writes.
LEMMA IceInitAInv == IceInit => AInv
  <1> SUFFICES ASSUME IceInit PROVE AInv
    OBVIOUS
  <1>1. OneOwner /\ ExpectingIsOn /\ WritersFind /\ ServedFind
    BY DEF IceInit, OneOwner, ExpectingIsOn, WritersFind, ServedFind, Served
  <1> QED BY <1>1, IceInitIInv, IceInitTInv DEF AInv

\* A step that leaves the file and what is written to it alone, and makes nobody a
\* writer or one who serves its clients, loses no cookie.
LEMMA FileLeftAlone ==
  ASSUME AInv, UNCHANGED <<entries, written, expects, file, lost>>,
         NEW s \in Session, NEW next \in Stage, stage' = [stage EXCEPT ![s] = next],
         \/ next \in {"lock", "update", "deaf"} /\ stage[s] \in {"off", "lock"}
         \/ next \in {"unlock", "serve"} /\ stage[s] \in {"lock", "update"}
         \/ next = "serve" /\ stage[s] = "unlock"
  PROVE  ExpectingIsOn' /\ WritersFind' /\ ServedFind'
  <1>1. /\ stage \in [Session -> Stage] /\ expects \subseteq Session
        /\ ExpectingIsOn /\ WritersFind /\ ServedFind
    BY DEF AInv, IInv, TInv, IceTypeOK
  <1>2. /\ stage'[s] = next
        /\ \A o \in Session : o # s => stage'[o] = stage[o]
    BY <1>1
  <1>3. Served' \subseteq Served
    BY <1>1, <1>2 DEF Served, ExpectingIsOn
  <1>4. \A w \in Session : stage'[w] = "write" => stage[w] = "write"
    BY <1>2
  <1>5. HalfWritten => HalfWritten'
    BY <1>2 DEF HalfWritten
  <1>7. ExpectingIsOn'
    BY <1>1, <1>2 DEF ExpectingIsOn
  <1>8. WritersFind'
    <2>1. ASSUME NEW w \in Session, stage'[w] = "write" PROVE Finds(entries'[w], w)
      BY <1>1, <1>4, <2>1 DEF WritersFind
    <2>2. ASSUME NEW w \in Session, stage'[w] = "write", NEW o \in Served'
          PROVE  Finds(entries'[w], o)
      BY <1>1, <1>3, <1>4, <2>2 DEF WritersFind
    <2> QED BY <2>1, <2>2 DEF WritersFind, Finds
  <1>9. ServedFind'
    <2>1. ASSUME ~HalfWritten', NEW o \in Served' PROVE file' # NoFile /\ Finds(file', o)
      BY <1>1, <1>3, <1>5, <2>1 DEF ServedFind
    <2> QED BY <2>1 DEF ServedFind, Finds
  <1> QED BY <1>7, <1>8, <1>9

\* Every step keeps the cookies of those who live.
LEMMA IceNextAInv == AInv /\ [IceNext]_iceVars => AInv'
  <1> SUFFICES ASSUME AInv, [IceNext]_iceVars PROVE AInv'
    OBVIOUS
  <1>1. IInv' /\ TInv'
    BY IceNextIInv, IceNextTInv DEF AInv
  <1>2. /\ stage \in [Session -> Stage] /\ written \in [Session -> Nat]
        /\ entries \in [Session -> Seq(Writable)] /\ expects \subseteq Session
        /\ UpdatesExclude /\ OneOwner /\ ExpectingIsOn /\ WritersFind /\ ServedFind
    BY DEF AInv, IInv, TInv, IceTypeOK, Writable
  <1>3. ASSUME NEW s \in Session, ListenSocket(s) PROVE AInv'
    <2>1. OneOwner'
      <3>1. \A o \in Session : o # s =>
              stage'[o] = stage[o] /\ (NetOf[o] = NetOf[s] => stage[o] \in {"off", "dead"})
        BY <1>2, <1>3 DEF ListenSocket, GoTo
      <3> QED BY <1>2, <3>1 DEF OneOwner
    <2>2. PICK next \in {"lock", "deaf"} : stage' = [stage EXCEPT ![s] = next]
      BY <1>3 DEF ListenSocket, GoTo
    <2>3. stage[s] = "off" /\ UNCHANGED <<entries, written, expects, file, lost>>
      BY <1>3 DEF ListenSocket
    <2>4. ExpectingIsOn' /\ WritersFind' /\ ServedFind'
      BY <2>2, <2>3, FileLeftAlone DEF Stage
    <2> QED BY <1>1, <2>1, <2>4 DEF AInv
  <1>4. ASSUME NEW s \in Session, IceLock(s) PROVE AInv'
    <2>1. OneOwner'
      BY <1>2, <1>4 DEF IceLock, GoTo, OneOwner
    <2>2. /\ stage' = [stage EXCEPT ![s] = "update"] /\ stage[s] = "lock"
          /\ UNCHANGED <<entries, written, expects, file, lost>>
      BY <1>4 DEF IceLock, GoTo
    <2>3. ExpectingIsOn' /\ WritersFind' /\ ServedFind'
      BY <2>2, FileLeftAlone DEF Stage
    <2> QED BY <1>1, <2>1, <2>3 DEF AInv
  <1>5. ASSUME NEW s \in Session, IceLockTaken(s) PROVE AInv'
    <2>1. OneOwner'
      BY <1>2, <1>5 DEF IceLockTaken, GoTo, OneOwner
    <2>2. PICK next \in {"lock", "serve"} : stage' = [stage EXCEPT ![s] = next]
      BY <1>5 DEF IceLockTaken, GoTo
    <2>3. stage[s] = "lock" /\ UNCHANGED <<entries, written, expects, file, lost>>
      BY <1>5 DEF IceLockTaken
    <2>4. ExpectingIsOn' /\ WritersFind' /\ ServedFind'
      BY <2>2, <2>3, FileLeftAlone DEF Stage
    <2> QED BY <1>1, <2>1, <2>4 DEF AInv
  <1>6. ASSUME NEW s \in Session, ReadFile(s) PROVE AInv'
    <2> DEFINE f == IF file = NoFile THEN <<>> ELSE file
               es == Kept(s, f) \o OwnEntries(s)
    <2>1. /\ file' = f /\ entries' = [entries EXCEPT ![s] = es]
          /\ expects' = expects \cup {s} /\ stage[s] = "update"
          /\ stage' = [stage EXCEPT ![s] = "write"]
          /\ UNCHANGED <<written, lost>>
      BY <1>6 DEF ReadFile, GoTo
    <2>2. f \in Seq(Entry)
      BY DEF AInv, TInv, IceTypeOK
    <2>3. /\ Finds(es, s)
          /\ \A o \in Session : NetOf[o] # NetOf[s] /\ Finds(f, o) => Finds(es, o)
      BY <2>2, KeptAndOwnFound
    <2>4. file # NoFile => f = file
      OBVIOUS
    <2>5. f # NoFile
      BY <2>2, IceAssumption
    <2> HIDE DEF es, f
    <2>6. \A o \in Session : o # s => stage'[o] = stage[o] /\ entries'[o] = entries[o]
      BY <1>2, <2>1
    <2>7. stage'[s] = "write" /\ entries'[s] = es
      BY <1>2, <2>1
    <2>8. \A w \in Session : stage'[w] = "write" => w = s
      BY <1>2, <2>1, <2>6 DEF UpdatesExclude
    <2>9. Served' = Served
      BY <1>2, <2>1, <2>6, <2>7 DEF Served
    <2>10. \A o \in Served : o \in Session /\ o # s /\ NetOf[o] # NetOf[s]
      BY <1>2, <2>1 DEF Served, OneOwner
    <2>11. ~HalfWritten
      BY <1>2, <2>1 DEF HalfWritten, UpdatesExclude
    <2>13. ASSUME NEW o \in Served PROVE Finds(f, o) /\ Finds(es, o)
      BY <1>2, <2>3, <2>4, <2>10, <2>11, <2>13 DEF ServedFind
    <2>14. WritersFind'
      <3>1. \A w \in Session : stage'[w] = "write" =>
              /\ Finds(entries'[w], w)
              /\ \A o \in Served' : Finds(entries'[w], o)
        BY <2>3, <2>7, <2>8, <2>9, <2>13
      <3> QED BY <3>1 DEF WritersFind, Finds
    <2>15. ServedFind'
      <3>1. ~HalfWritten' => \A o \in Served' : file' # NoFile /\ Finds(file', o)
        BY <2>1, <2>5, <2>9, <2>13
      <3> QED BY <3>1 DEF ServedFind, Finds
    <2>16. ExpectingIsOn'
      BY <1>2, <2>1, <2>6, <2>7 DEF ExpectingIsOn
    <2>17. OneOwner'
      BY <1>2, <2>1, <2>6, <2>7 DEF OneOwner
    <2> QED BY <1>1, <2>14, <2>15, <2>16, <2>17 DEF AInv
  <1>7. ASSUME NEW s \in Session, NoFileToWrite(s) PROVE AInv'
    <2>1. OneOwner'
      BY <1>2, <1>7 DEF NoFileToWrite, GoTo, OneOwner
    <2>2. /\ stage' = [stage EXCEPT ![s] = "unlock"] /\ stage[s] = "update"
          /\ UNCHANGED <<entries, written, expects, file, lost>>
      BY <1>7 DEF NoFileToWrite, GoTo
    <2>3. ExpectingIsOn' /\ WritersFind' /\ ServedFind'
      BY <2>2, FileLeftAlone DEF Stage
    <2> QED BY <1>1, <2>1, <2>3 DEF AInv
  <1>8. ASSUME NEW s \in Session, WriteBuffer(s) PROVE AInv'
    <2>1. /\ stage[s] = "write" /\ written' = [written EXCEPT ![s] = written[s] + Buffer]
          /\ UNCHANGED <<stage, entries, expects, lost>>
      BY <1>8 DEF WriteBuffer
    <2>2. written[s] \in Nat /\ written'[s] = written[s] + Buffer /\ written'[s] > 0
      <3>1. written[s] \in Nat /\ written'[s] = written[s] + Buffer
        BY <1>2, <2>1
      <3> QED BY <3>1, IceAssumption
    <2>3. HalfWritten'
      BY <2>1, <2>2 DEF HalfWritten
    <2>4. ServedFind'
      BY <2>3 DEF ServedFind
    <2>6. WritersFind'
      <3>1. Served' = Served
        BY <2>1 DEF Served
      <3>2. \A w \in Session : stage'[w] = "write" =>
              /\ Finds(entries'[w], w)
              /\ \A o \in Served' : Finds(entries'[w], o)
        BY <1>2, <2>1, <3>1 DEF WritersFind
      <3> QED BY <3>2 DEF WritersFind, Finds
    <2>7. OneOwner' /\ ExpectingIsOn'
      BY <1>2, <2>1 DEF OneOwner, ExpectingIsOn
    <2> QED BY <1>1, <2>4, <2>6, <2>7 DEF AInv
  <1>9. ASSUME NEW s \in Session, CloseFile(s) PROVE AInv'
    <2> DEFINE es == entries[s]
    <2>1. /\ stage[s] = "write" /\ file' \in Overwritten(s, Len(es))
          /\ written' = [written EXCEPT ![s] = 0] /\ entries' = [entries EXCEPT ![s] = <<>>]
          /\ stage' = [stage EXCEPT ![s] = "unlock"]
          /\ UNCHANGED <<expects, lost>>
      BY <1>9 DEF CloseFile, GoTo
    <2>2. es \in Seq(Entry)
      <3>1. es \in Seq(Writable)
        <4> HIDE DEF Writable
        <4> QED BY <1>2
      <3>2. Writable \subseteq Entry
        BY DEF Writable
      <3> HIDE DEF Writable, es
      <3> QED BY <3>1, <3>2
    <2>3. file \in Seq(Entry)
      BY <2>1 DEF AInv, TInv, IceTypeOK, FileThere
    <2>4. PICK tail \in {<<>>, SubSeq(file, Len(es) + 1, Len(file))} : file' = es \o tail
      <3>1. PICK tail \in {<<>>, SubSeq(file, Len(es) + 1, Len(file))} :
              file' = SubSeq(es, 1, Len(es)) \o tail
        BY <2>1 DEF Overwritten
      <3>2. SubSeq(es, 1, Len(es)) = es
        <4> HIDE DEF es
        <4> QED BY <2>2, SubSeqFull
      <3> QED BY <3>1, <3>2
    <2>5. tail \in Seq(Entry)
      <3> HIDE DEF es
      <3>1. Len(es) \in Nat /\ Len(file) \in Nat
        BY <2>2, <2>3
      <3>2. \A i \in Len(es) + 1 .. Len(file) : file[i] \in Entry
        BY <2>3, <3>1
      <3>3. SubSeq(file, Len(es) + 1, Len(file)) \in Seq(Entry)
        BY <3>1, <3>2, SubSeqProperties
      <3>4. <<>> \in Seq(Entry)
        OBVIOUS
      <3> QED BY <2>4, <3>3, <3>4
    <2>6. file' # NoFile
      <3> HIDE DEF es
      <3>1. es \o tail \in Seq(Entry)
        BY <2>2, <2>5
      <3> QED BY <2>4, <3>1, IceAssumption
    <2>7. \A o : Finds(es, o) => Finds(file', o)
      <3> HIDE DEF es
      <3> QED BY <2>2, <2>4, <2>5, ConcatKeepsFirst DEF Finds
    <2> HIDE DEF es
    <2>8. /\ stage'[s] = "unlock"
          /\ \A o \in Session : o # s =>
               /\ stage'[o] = stage[o] /\ entries'[o] = entries[o] /\ written'[o] = written[o]
      BY <1>2, <2>1
    <2>9. \A w \in Session : stage'[w] # "write"
      BY <1>2, <2>1, <2>8 DEF UpdatesExclude
    <2>10. Served' \subseteq Served \cup {s}
      BY <1>2, <2>1, <2>8 DEF Served
    <2>12. ServedFind'
      <3>1. ASSUME NEW o \in Served' PROVE Finds(es, o)
        BY <1>2, <2>1, <2>10, <3>1 DEF WritersFind, es
      <3>2. ~HalfWritten' => \A o \in Served' : file' # NoFile /\ Finds(file', o)
        BY <2>6, <2>7, <3>1
      <3> QED BY <3>2 DEF ServedFind, Finds
    <2>13. WritersFind'
      BY <2>9 DEF WritersFind
    <2>14. OneOwner' /\ ExpectingIsOn'
      BY <1>2, <2>1, <2>8 DEF OneOwner, ExpectingIsOn
    <2> QED BY <1>1, <2>12, <2>13, <2>14 DEF AInv
  <1>10. ASSUME NEW s \in Session, Unlock(s) PROVE AInv'
    <2>1. OneOwner'
      BY <1>2, <1>10 DEF Unlock, GoTo, OneOwner
    <2>2. /\ stage' = [stage EXCEPT ![s] = "serve"] /\ stage[s] = "unlock"
          /\ UNCHANGED <<entries, written, expects, file, lost>>
      BY <1>10 DEF Unlock, GoTo
    <2>3. ExpectingIsOn' /\ WritersFind' /\ ServedFind'
      BY <2>2, FileLeftAlone DEF Stage
    <2> QED BY <1>1, <2>1, <2>3 DEF AInv
  <1>11. ASSUME NEW s \in Session, Die(s) PROVE AInv'
    <2>1. OneOwner'
      BY <1>2, <1>11 DEF Die, GoTo, OneOwner
    <2>2. /\ stage[s] \notin {"off", "dead"} /\ stage' = [stage EXCEPT ![s] = "dead"]
          /\ lost' = lost \cup CutOff(s)
          /\ UNCHANGED <<entries, written, expects, file>>
      BY <1>11 DEF Die, GoTo
    <2>3. /\ stage'[s] = "dead"
          /\ \A o \in Session : o # s => stage'[o] = stage[o]
      BY <1>2, <2>2
    <2>4. Served' \subseteq Served /\ s \notin Served'
      BY <1>2, <2>2, <2>3 DEF Served
    <2>5. ExpectingIsOn'
      BY <1>2, <2>2, <2>3 DEF ExpectingIsOn
    <2>6. WritersFind'
      <3>1. \A w \in Session : stage'[w] = "write" =>
              /\ stage[w] = "write"
              /\ Finds(entries'[w], w)
              /\ \A o \in Served' : Finds(entries'[w], o)
        BY <1>2, <2>2, <2>3, <2>4 DEF WritersFind
      <3> QED BY <3>1 DEF WritersFind, Finds
    <2>7. ASSUME ~HalfWritten', NEW o \in Served' PROVE file' # NoFile /\ Finds(file', o)
      <3>1. CASE ~HalfWritten
        BY <1>2, <2>2, <2>4, <2>7, <3>1 DEF ServedFind
      <3>2. CASE HalfWritten
        <4>1. PICK w \in Session : stage[w] = "write" /\ written[w] > 0
          BY <3>2 DEF HalfWritten
        <4>2. w = s
          BY <2>2, <2>3, <2>7, <4>1 DEF HalfWritten
        <4>3. o \in Served /\ o \in Session /\ o # s
          BY <1>2, <2>4, <2>7 DEF Served
        <4>4. stage[o] = "serve"
          BY <1>2, <4>1, <4>2, <4>3 DEF Served, UpdatesExclude
        <4>5. o \in expects /\ o \notin CutOff(s)
          BY <2>2, <2>7 DEF Served
        <4>6. Finds(file, o)
          BY <4>1, <4>2, <4>4, <4>5 DEF CutOff
        <4>7. file # NoFile
          BY <4>1 DEF AInv, TInv, FileThere
        <4> QED BY <2>2, <4>6, <4>7
      <3> QED BY <3>1, <3>2
    <2>8. ServedFind'
      BY <2>7 DEF ServedFind, Finds
    <2> QED BY <1>1, <2>1, <2>5, <2>6, <2>8 DEF AInv
  <1>12. CASE UNCHANGED <<stage, entries, written, expects, file, lost>>
    <2>1. OneOwner' /\ ExpectingIsOn' /\ WritersFind' /\ ServedFind'
      BY <1>2, <1>12 DEF OneOwner, ExpectingIsOn, WritersFind, ServedFind, HalfWritten,
                        Served, Finds
    <2> QED BY <1>1, <2>1 DEF AInv
  <1>13. LockGetsOld \/ UNCHANGED iceVars => UNCHANGED <<stage, entries, written, expects, file, lost>>
    BY DEF LockGetsOld, iceVars
  <1>14. ASSUME NEW s \in Session, IceLockError(s) PROVE AInv'
    <2>1. OneOwner'
      BY <1>2, <1>14 DEF IceLockError, GoTo, OneOwner
    <2>2. /\ stage' = [stage EXCEPT ![s] = "serve"] /\ stage[s] = "lock"
          /\ UNCHANGED <<entries, written, expects, file, lost>>
      BY <1>14 DEF IceLockError, GoTo
    <2>3. ExpectingIsOn' /\ WritersFind' /\ ServedFind'
      BY <2>2, FileLeftAlone DEF Stage
    <2> QED BY <1>1, <2>1, <2>3 DEF AInv
  <1> QED BY <1>3, <1>4, <1>5, <1>6, <1>7, <1>8, <1>9, <1>10, <1>11, <1>12, <1>13, <1>14
          DEF IceNext, SessionStep

\* The invariant that the cookies rest on.
THEOREM AuthorityInvariance == IceSpec => []AInv
  BY IceInitAInv, IceNextAInv, PTL DEF IceSpec

\* However many sessions of a user come, go and die, and whatever the file held:
\* between updates, a client of a session that serves and could write to the file
\* finds the cookie that the session expects, unless a death between two writes has
\* just cut that cookie off (XsmpServer::update_ice_authority).
THEOREM CookiesAreFound == IceSpec => []ClientsCanAuthenticate
  <1>1. AInv => ClientsCanAuthenticate
    BY DEF AInv, ServedFind, Served, ClientsCanAuthenticate
  <1> QED BY <1>1, AuthorityInvariance, PTL
=============================================================================
