--------------------------- MODULE ClientXsmpProofs ---------------------------
(* The array of properties, one property at a time, and what ClientXsmp keeps  *)
(* of XsmpServer.                                                              *)
EXTENDS ClientXsmp, XsmpServerProofs, RecursionLemmas

\* An array that has every name once at most.
Distinct(ps) == \A k, l \in DOMAIN ps : ps[k].name = ps[l].name => k = l

\* The index of a name is that of its property, or 0 (get_property_index).
LEMMA PropertyIndexFinds ==
  ASSUME NEW ps \in Seq(Property), Distinct(ps), NEW n
  PROVE  /\ \A k \in DOMAIN ps : ps[k].name = n => PropertyIndex(ps, n) = k
         /\ (\A k \in DOMAIN ps : ps[k].name # n) => PropertyIndex(ps, n) = 0
  <1> DEFINE found == {k \in DOMAIN ps : ps[k].name = n}
  <1>1. ASSUME NEW k \in DOMAIN ps, ps[k].name = n PROVE PropertyIndex(ps, n) = k
    <2>1. found = {k} /\ k <= k
      BY <1>1 DEF Distinct
    <2>2. (CHOOSE j \in found : \A l \in found : j <= l) = k
      BY <2>1
    <2> QED BY <2>1, <2>2 DEF PropertyIndex
  <1>2. ASSUME \A k \in DOMAIN ps : ps[k].name # n PROVE PropertyIndex(ps, n) = 0
    BY <1>2 DEF PropertyIndex
  <1> QED BY <1>1, <1>2

\* The value of a name is that of its property, if it has one (get_property).
LEMMA ValueOfFinds ==
  ASSUME NEW ps \in Seq(Property), Distinct(ps), NEW n
  PROVE  /\ \A k \in DOMAIN ps : ps[k].name = n => ValueOf(ps, n) = ps[k].value
         /\ (\A k \in DOMAIN ps : ps[k].name # n) => ValueOf(ps, n) = Missing
  <1>1. \A k \in DOMAIN ps : k # 0
    OBVIOUS
  <1> QED BY <1>1, PropertyIndexFinds DEF ValueOf

\* remove_index_fast: the last one takes the place of the one that is removed.
LEMMA DeletePropertyMoves ==
  ASSUME NEW ps \in Seq(Property), Distinct(ps), NEW n,
         NEW k \in DOMAIN ps, ps[k].name = n
  PROVE  LET ds == DeleteProperty(ps, n)
         IN  /\ ds \in Seq(Property)
             /\ DOMAIN ds = 1 .. Len(ps) - 1
             /\ \A i \in DOMAIN ds : ds[i] = IF i = k THEN ps[Len(ps)] ELSE ps[i]
  <1> DEFINE qs == [ps EXCEPT ![k] = Last(ps)]
  <1>1. PropertyIndex(ps, n) = k /\ k # 0
    BY PropertyIndexFinds
  <1>2. Len(ps) \in Nat \ {0} /\ Last(ps) = ps[Len(ps)] /\ Last(ps) \in Property
    BY DEF Last
  <1>3. qs \in Seq(Property) /\ Len(qs) = Len(ps)
    BY <1>2
  <1>4. \A i \in 1 .. Len(ps) : qs[i] = IF i = k THEN ps[Len(ps)] ELSE ps[i]
    BY <1>2
  <1>5. DeleteProperty(ps, n) = SubSeq(qs, 1, Len(ps) - 1)
    BY <1>1, <1>3 DEF DeleteProperty, Front
  <1> HIDE DEF qs
  <1>6. /\ SubSeq(qs, 1, Len(ps) - 1) \in Seq(Property)
        /\ DOMAIN SubSeq(qs, 1, Len(ps) - 1) = 1 .. Len(ps) - 1
        /\ \A i \in 1 .. Len(ps) - 1 : SubSeq(qs, 1, Len(ps) - 1)[i] = qs[i]
    BY <1>2, <1>3
  <1> QED BY <1>2, <1>4, <1>5, <1>6

\* Deleting a property clears its name and no other, and keeps the names distinct
\* (ClientXsmp::delete_property).
THEOREM DeletePropertyClearsOne ==
  ASSUME NEW ps \in Seq(Property), Distinct(ps), NEW n
  PROVE  /\ DeleteProperty(ps, n) \in Seq(Property)
         /\ Distinct(DeleteProperty(ps, n))
         /\ \A k \in DOMAIN DeleteProperty(ps, n) : DeleteProperty(ps, n)[k].name # n
         /\ ValueOf(DeleteProperty(ps, n), n) = Missing
         /\ \A m : m # n => ValueOf(DeleteProperty(ps, n), m) = ValueOf(ps, m)
  <1> DEFINE ds == DeleteProperty(ps, n)
  <1>1. CASE \A k \in DOMAIN ps : ps[k].name # n
    <2>1. ds = ps
      BY <1>1, PropertyIndexFinds DEF DeleteProperty
    <2> QED BY <1>1, <2>1, ValueOfFinds
  <1>2. CASE \E k \in DOMAIN ps : ps[k].name = n
    <2>1. PICK k \in DOMAIN ps : ps[k].name = n
      BY <1>2
    <2>2. /\ ds \in Seq(Property)
          /\ DOMAIN ds = 1 .. Len(ps) - 1
          /\ \A i \in DOMAIN ds : ds[i] = IF i = k THEN ps[Len(ps)] ELSE ps[i]
      BY <2>1, DeletePropertyMoves
    <2> HIDE DEF ds
    <2>3. DOMAIN ps = 1 .. Len(ps) /\ Len(ps) \in Nat
      OBVIOUS
    <2>4. Distinct(ds)
      BY <2>2, <2>3 DEF Distinct
    <2>5. \A i \in DOMAIN ds : ds[i].name # n
      BY <2>1, <2>2, <2>3 DEF Distinct
    <2>6. \A i \in DOMAIN ds : \E j \in DOMAIN ps : ds[i] = ps[j]
      BY <2>2, <2>3
    <2>7. \A j \in DOMAIN ps : j # k => \E i \in DOMAIN ds : ds[i] = ps[j]
      <3> SUFFICES ASSUME NEW j \in DOMAIN ps, j # k
                   PROVE  \E i \in DOMAIN ds : ds[i] = ps[j]
        OBVIOUS
      <3>1. CASE j = Len(ps)
        <4>1. k \in DOMAIN ds /\ ds[k] = ps[j]
          BY <3>1, <2>2, <2>3
        <4> QED BY <4>1
      <3>2. CASE j # Len(ps)
        <4>1. j \in DOMAIN ds /\ ds[j] = ps[j]
          BY <3>2, <2>2, <2>3
        <4> QED BY <4>1
      <3> QED BY <3>1, <3>2
    <2>8. ASSUME NEW m, m # n PROVE ValueOf(ds, m) = ValueOf(ps, m)
      <3>1. CASE \E j \in DOMAIN ps : ps[j].name = m
        <4>1. PICK j \in DOMAIN ps : ps[j].name = m
          BY <3>1
        <4>2. PICK i \in DOMAIN ds : ds[i] = ps[j]
          BY <2>1, <2>7, <2>8, <4>1
        <4> QED BY <2>2, <2>4, <4>1, <4>2, ValueOfFinds
      <3>2. CASE \A j \in DOMAIN ps : ps[j].name # m
        <4>1. \A i \in DOMAIN ds : ds[i].name # m
          BY <2>6, <3>2
        <4> QED BY <2>2, <2>4, <3>2, <4>1, ValueOfFinds
      <3> QED BY <3>1, <3>2
    <2>9. ValueOf(ds, n) = Missing
      BY <2>2, <2>4, <2>5, ValueOfFinds
    <2> QED BY <2>2, <2>4, <2>5, <2>8, <2>9 DEF ds
  <1> QED BY <1>1, <1>2

\* Updating a property sets its name and no other, and keeps the names distinct
\* (ClientXsmp::update_property).
THEOREM UpdatePropertySetsOne ==
  ASSUME NEW ps \in Seq(Property), Distinct(ps), NEW p \in Property
  PROVE  /\ UpdateProperty(ps, p) \in Seq(Property)
         /\ Distinct(UpdateProperty(ps, p))
         /\ ValueOf(UpdateProperty(ps, p), p.name) = p.value
         /\ \A m : m # p.name => ValueOf(UpdateProperty(ps, p), m) = ValueOf(ps, m)
  <1> DEFINE ds == DeleteProperty(ps, p.name)
             us == Append(ds, p)
  <1>1. /\ ds \in Seq(Property) /\ Distinct(ds)
        /\ \A k \in DOMAIN ds : ds[k].name # p.name
        /\ \A m : m # p.name => ValueOf(ds, m) = ValueOf(ps, m)
    BY DeletePropertyClearsOne
  <1>2. us = UpdateProperty(ps, p)
    BY DEF UpdateProperty
  <1> HIDE DEF ds
  <1>3. /\ us \in Seq(Property) /\ Len(ds) \in Nat
        /\ DOMAIN ds = 1 .. Len(ds) /\ DOMAIN us = 1 .. Len(ds) + 1
        /\ us[Len(ds) + 1] = p /\ \A k \in 1 .. Len(ds) : us[k] = ds[k]
    BY <1>1
  <1> HIDE DEF us
  <1>4. Distinct(us)
    BY <1>1, <1>3 DEF Distinct
  <1>5. ValueOf(us, p.name) = p.value
    <2>1. Len(ds) + 1 \in DOMAIN us
      BY <1>3
    <2> QED BY <2>1, <1>3, <1>4, ValueOfFinds
  <1>6. ASSUME NEW m, m # p.name PROVE ValueOf(us, m) = ValueOf(ds, m)
    <2>1. CASE \E k \in DOMAIN ds : ds[k].name = m
      <3>1. PICK k \in DOMAIN ds : ds[k].name = m
        BY <2>1
      <3>2. k \in DOMAIN us /\ us[k] = ds[k]
        BY <1>3
      <3> QED BY <1>1, <1>3, <1>4, <3>1, <3>2, ValueOfFinds
    <2>2. CASE \A k \in DOMAIN ds : ds[k].name # m
      <3>1. \A k \in DOMAIN us : us[k].name # m
        BY <1>3, <1>6, <2>2
      <3> QED BY <1>1, <1>3, <1>4, <2>2, <3>1, ValueOfFinds
    <2> QED BY <2>1, <2>2
  <1> QED BY <1>1, <1>2, <1>3, <1>4, <1>5, <1>6

-----------------------------------------------------------------------------
(* A message, entry by entry.                                                *)

Array == {ps \in Seq(Property) : Distinct(ps)}

\* The loop of SetProperties takes an array without duplicates to another, entry by
\* entry (ClientManager::on_set_properties_cb).
LEMMA UpdateEachLoops ==
  ASSUME NEW ps \in Array, NEW message \in Seq(Property)
  PROVE  \E u \in [0 .. Len(message) -> Array] :
           /\ u[0] = ps
           /\ \A k \in 0 .. Len(message) - 1 : u[k + 1] = UpdateProperty(u[k], message[k + 1])
           /\ UpdateEach(ps, message) = u[Len(message)]
  <1> DEFINE n == Len(message)
             F(g) == [k \in 0 .. n |-> IF k = 0 THEN ps ELSE UpdateProperty(g[k - 1], message[k])]
             step == [k \in 1 .. n |-> [qs \in Array |-> UpdateProperty(qs, message[k])]]
             u == CHOOSE g : g = F(g)
  <1>1. n \in Nat /\ \A k \in 1 .. n : message[k] \in Property
    OBVIOUS
  <1>2. \A qs \in Array, p \in Property : UpdateProperty(qs, p) \in Array
    BY UpdatePropertySetsOne DEF Array
  <1>3. step \in Steps(Array, n)
    BY <1>1, <1>2 DEF Steps
  <1>4. PICK g \in [0 .. n -> Array] :
          g[0] = ps /\ \A k \in 1 .. n : g[k] = step[k][g[k - 1]]
    <2> HIDE DEF step, n
    <2>1. Results(Array, ps, n, step) # {}
      BY <1>1, <1>3, LoopHasResults
    <2> QED BY <2>1 DEF Results
  <1>5. ASSUME NEW k \in 1 .. n
        PROVE  g[k] = UpdateProperty(g[k - 1], message[k])
    <2>1. g[k - 1] \in Array /\ g[k] = step[k][g[k - 1]]
      BY <1>1, <1>4
    <2> QED BY <2>1
  <1>6. g = F(g)
    <2> HIDE DEF step
    <2>1. \A k \in 0 .. n :
            g[k] = IF k = 0 THEN ps ELSE UpdateProperty(g[k - 1], message[k])
      BY <1>1, <1>4, <1>5
    <2> QED BY <2>1
  <1>7. u = F(u)
    <2> HIDE DEF F
    <2> QED BY <1>6
  <1>8. UpdateEach(ps, message) = u[n]
    BY DEF UpdateEach
  <1> HIDE DEF u, n, step
  <1>9. u[0] = ps /\ \A k \in 0 .. n - 1 : u[k + 1] = UpdateProperty(u[k], message[k + 1])
    <2>1. \A k \in 0 .. n : u[k] = IF k = 0 THEN ps ELSE UpdateProperty(u[k - 1], message[k])
      BY <1>7
    <2>2. \A k \in 0 .. n - 1 : k + 1 \in 0 .. n /\ k + 1 # 0 /\ (k + 1) - 1 = k
      BY <1>1
    <2> QED BY <1>1, <2>1, <2>2
  <1> HIDE DEF F
  <1>10. ASSUME NEW k \in 0 .. n PROVE u[k] \in Array
    <2> DEFINE S == {j \in 0 .. n : u[j] \in Array}
    <2>1. 0 \in S /\ \A j \in 0 .. k - 1 : j \in S => j + 1 \in S
      BY <1>1, <1>2, <1>9
    <2> HIDE DEF S
    <2>2. S \in SUBSET Nat
      BY DEF S
    <2>3. k \in S
      BY <1>1, <2>1, <2>2, SetInduction
    <2> QED BY <2>3 DEF S
  <1>11. u \in [0 .. n -> Array]
    BY <1>7, <1>10 DEF F
  <1> QED BY <1>8, <1>9, <1>11 DEF n

\* The loop of DeleteProperties likewise (ClientManager::on_delete_properties_cb).
LEMMA DeleteEachLoops ==
  ASSUME NEW ps \in Array, NEW names \in Seq(Name)
  PROVE  \E u \in [0 .. Len(names) -> Array] :
           /\ u[0] = ps
           /\ \A k \in 0 .. Len(names) - 1 : u[k + 1] = DeleteProperty(u[k], names[k + 1])
           /\ DeleteEach(ps, names) = u[Len(names)]
  <1> DEFINE n == Len(names)
             F(g) == [k \in 0 .. n |-> IF k = 0 THEN ps ELSE DeleteProperty(g[k - 1], names[k])]
             step == [k \in 1 .. n |-> [qs \in Array |-> DeleteProperty(qs, names[k])]]
             u == CHOOSE g : g = F(g)
  <1>1. n \in Nat
    OBVIOUS
  <1>2. \A qs \in Array : \A m : DeleteProperty(qs, m) \in Array
    BY DeletePropertyClearsOne DEF Array
  <1>3. step \in Steps(Array, n)
    BY <1>1, <1>2 DEF Steps
  <1>4. PICK g \in [0 .. n -> Array] :
          g[0] = ps /\ \A k \in 1 .. n : g[k] = step[k][g[k - 1]]
    <2> HIDE DEF step, n
    <2>1. Results(Array, ps, n, step) # {}
      BY <1>1, <1>3, LoopHasResults
    <2> QED BY <2>1 DEF Results
  <1>5. ASSUME NEW k \in 1 .. n
        PROVE  g[k] = DeleteProperty(g[k - 1], names[k])
    <2>1. g[k - 1] \in Array /\ g[k] = step[k][g[k - 1]]
      BY <1>1, <1>4
    <2> QED BY <2>1
  <1>6. g = F(g)
    <2> HIDE DEF step
    <2>1. \A k \in 0 .. n :
            g[k] = IF k = 0 THEN ps ELSE DeleteProperty(g[k - 1], names[k])
      BY <1>1, <1>4, <1>5
    <2> QED BY <2>1
  <1>7. u = F(u)
    <2> HIDE DEF F
    <2> QED BY <1>6
  <1>8. DeleteEach(ps, names) = u[n]
    BY DEF DeleteEach
  <1> HIDE DEF u, n, step
  <1>9. u[0] = ps /\ \A k \in 0 .. n - 1 : u[k + 1] = DeleteProperty(u[k], names[k + 1])
    <2>1. \A k \in 0 .. n : u[k] = IF k = 0 THEN ps ELSE DeleteProperty(u[k - 1], names[k])
      BY <1>7
    <2>2. \A k \in 0 .. n - 1 : k + 1 \in 0 .. n /\ k + 1 # 0 /\ (k + 1) - 1 = k
      BY <1>1
    <2> QED BY <1>1, <2>1, <2>2
  <1> HIDE DEF F
  <1>10. ASSUME NEW k \in 0 .. n PROVE u[k] \in Array
    <2> DEFINE S == {j \in 0 .. n : u[j] \in Array}
    <2>1. 0 \in S /\ \A j \in 0 .. k - 1 : j \in S => j + 1 \in S
      BY <1>1, <1>2, <1>9
    <2> HIDE DEF S
    <2>2. S \in SUBSET Nat
      BY DEF S
    <2>3. k \in S
      BY <1>1, <2>1, <2>2, SetInduction
    <2> QED BY <2>3 DEF S
  <1>11. u \in [0 .. n -> Array]
    BY <1>7, <1>10 DEF F
  <1> QED BY <1>8, <1>9, <1>11 DEF n

\* A message sets each name that it has to the last value it has for it, and no other
\* (ClientManager::on_set_properties_cb).
LEMMA UpdateEachSetsLast ==
  ASSUME NEW ps \in Array, NEW message \in Seq(Property), NEW n
  PROVE  ValueOf(UpdateEach(ps, message), n) =
           IF PropertyTable!Places(message, n) = {} THEN ValueOf(ps, n)
           ELSE PropertyTable!LastValue(message, n)
  <1> USE DEF PropertyTable!Places
  <1> DEFINE len == Len(message)
             places == PropertyTable!Places(message, n)
  <1>1. len \in Nat /\ DOMAIN message = 1 .. len /\ \A k \in 1 .. len : message[k] \in Property
    OBVIOUS
  <1>2. PICK u \in [0 .. len -> Array] :
          /\ u[0] = ps
          /\ \A k \in 0 .. len - 1 : u[k + 1] = UpdateProperty(u[k], message[k + 1])
          /\ UpdateEach(ps, message) = u[len]
    BY UpdateEachLoops
  <1> HIDE DEF len
  <1>3. ASSUME NEW k \in 0 .. len - 1
        PROVE  ValueOf(u[k + 1], n) =
                 IF message[k + 1].name = n THEN message[k + 1].value ELSE ValueOf(u[k], n)
    <2> DEFINE p == message[k + 1]
    <2>1. /\ u[k] \in Seq(Property) /\ Distinct(u[k])
          /\ p \in Property
          /\ u[k + 1] = UpdateProperty(u[k], p)
      BY <1>1, <1>2 DEF Array
    <2> HIDE DEF p
    <2>2. /\ ValueOf(u[k + 1], p.name) = p.value
          /\ \A m : m # p.name => ValueOf(u[k + 1], m) = ValueOf(u[k], m)
      BY <2>1, UpdatePropertySetsOne
    <2> QED BY <2>2 DEF p
  <1>4. CASE places = {}
    <2> DEFINE S == {k \in 0 .. len : ValueOf(u[k], n) = ValueOf(ps, n)}
    <2>1. 0 \in S /\ \A k \in 0 .. len - 1 : k \in S => k + 1 \in S
      BY <1>1, <1>2, <1>3, <1>4
    <2> HIDE DEF S
    <2>2. S \in SUBSET Nat
      BY DEF S
    <2>3. len \in S
      BY <1>1, <2>1, <2>2, SetInduction
    <2> QED BY <1>2, <1>4, <2>3 DEF S
  <1>5. CASE places # {}
    <2> DEFINE last == CHOOSE k \in places : \A l \in places : l <= k
               S == {k \in 0 .. len : k >= last => ValueOf(u[k], n) = message[last].value}
    <2>1. last \in places /\ \A l \in places : l <= last
      <3>1. places \in SUBSET (0 .. len)
        BY <1>1
      <3> HIDE DEF places
      <3>2. \E k \in places : \A l \in places : l <= k
        BY <1>1, <1>5, <3>1, GreatestElement
      <3> QED BY <3>2
    <2>2. last \in 1 .. len /\ message[last].name = n
      BY <1>1, <2>1
    <2>3. \A k \in 1 .. len : message[k].name = n => k <= last
      BY <1>1, <2>1
    <2> HIDE DEF last
    <2>4. ASSUME NEW k \in 0 .. len - 1, k \in S
          PROVE  k + 1 \in S
      <3>1. k + 1 \in 0 .. len /\ k + 1 \in 1 .. len /\ k \in 0 .. len
        BY <1>1
      <3>2. CASE k + 1 = last
        <4>1. ValueOf(u[k + 1], n) = message[k + 1].value
          BY <1>3, <2>2, <3>2
        <4> QED BY <3>1, <3>2, <4>1
      <3>3. CASE k >= last
        <4>1. message[k + 1].name # n
          BY <2>2, <2>3, <3>1, <3>3
        <4> QED BY <1>3, <2>4, <3>1, <3>3, <4>1
      <3>4. CASE k + 1 < last
        BY <2>2, <3>1, <3>4
      <3> QED BY <2>2, <3>1, <3>2, <3>3, <3>4
    <2>5. 0 \in S
      BY <1>1, <2>2
    <2> HIDE DEF S
    <2>6. S \in SUBSET Nat
      BY DEF S
    <2>7. len \in S
      BY <1>1, <2>4, <2>5, <2>6, SetInduction
    <2>8. ValueOf(UpdateEach(ps, message), n) = message[last].value
      BY <1>1, <1>2, <2>2, <2>7 DEF S
    <2> QED BY <1>5, <2>8 DEF last, PropertyTable!LastValue
  <1> QED BY <1>4, <1>5

\* A message deletes the names that it has, each once or more often, and no other
\* (ClientManager::on_delete_properties_cb).
LEMMA DeleteEachClears ==
  ASSUME NEW ps \in Array, NEW names \in Seq(Name), NEW n
  PROVE  ValueOf(DeleteEach(ps, names), n) =
           IF n \in Range(names) THEN Missing ELSE ValueOf(ps, n)
  <1> DEFINE len == Len(names)
  <1>1. len \in Nat /\ DOMAIN names = 1 .. len
    OBVIOUS
  <1>2. PICK u \in [0 .. len -> Array] :
          /\ u[0] = ps
          /\ \A k \in 0 .. len - 1 : u[k + 1] = DeleteProperty(u[k], names[k + 1])
          /\ DeleteEach(ps, names) = u[len]
    BY DeleteEachLoops
  <1> HIDE DEF len
  <1>3. ASSUME NEW k \in 0 .. len - 1
        PROVE  ValueOf(u[k + 1], n) = IF names[k + 1] = n THEN Missing ELSE ValueOf(u[k], n)
    <2>1. /\ u[k] \in Seq(Property) /\ Distinct(u[k])
          /\ u[k + 1] = DeleteProperty(u[k], names[k + 1])
      BY <1>1, <1>2 DEF Array
    <2> QED BY <2>1, DeletePropertyClearsOne
  <1> DEFINE S == {k \in 0 .. len :
                     ValueOf(u[k], n) = IF \E j \in 1 .. k : names[j] = n THEN Missing
                                        ELSE ValueOf(ps, n)}
  <1>4. 0 \in S
    BY <1>1, <1>2
  <1>5. ASSUME NEW k \in 0 .. len - 1, k \in S
        PROVE  k + 1 \in S
    <2>1. (\E j \in 1 .. k + 1 : names[j] = n) <=> names[k + 1] = n \/ \E j \in 1 .. k : names[j] = n
      BY <1>1
    <2> QED BY <1>1, <1>3, <1>5, <2>1
  <1>6. S \in SUBSET Nat
    OBVIOUS
  <1> HIDE DEF S
  <1>7. len \in S
    BY <1>1, <1>4, <1>5, <1>6, SetInduction
  <1>8. n \in Range(names) <=> \E j \in 1 .. len : names[j] = n
    BY <1>1 DEF Range
  <1> QED BY <1>2, <1>7, <1>8 DEF S

-----------------------------------------------------------------------------
(* The properties of all clients.                                            *)

\* Properties change nothing of connections and clients, so that what is proved of
\* them holds with properties as well (on_set_properties_cb, on_delete_properties_cb).
THEOREM PropertiesKeepXsmpServer ==
  ClientSpec => [](SourcesFollowConnections /\ ClientsAreConnected) /\ OnlyOwnEndRemoves
  <1>1. ClientInit => Init
    BY DEF ClientInit
  <1>2. [ClientNext]_clientVars => [Next]_vars
    BY DEF ClientNext, clientVars, SetProperties, DeleteProperties
  <1>3. ClientSpec => Spec
    BY <1>1, <1>2, PTL DEF ClientSpec, Spec
  <1> QED BY <1>3, NoSourceIsLeft, ClientsKeepTheirConnections, NoStrangerRemoves, PTL

\* What is true of connections and clients, and of the properties of each client: an
\* array without duplicates.
CInv ==
  /\ IInv
  /\ props \in [XsmpClients(clients) -> Array]

\* At first there are no clients and no properties.
LEMMA ClientInitCInv == ClientInit => CInv
  <1> SUFFICES ASSUME ClientInit PROVE CInv
    OBVIOUS
  <1>1. IInv
    BY InitIInv DEF ClientInit
  <1>2. DOMAIN clients = {}
    BY DEF ClientInit, Init
  <1>3. XsmpClients(clients) = {}
    BY <1>2 DEF XsmpClients
  <1>4. props \in [{} -> Array]
    BY DEF ClientInit
  <1> QED BY <1>1, <1>3, <1>4 DEF CInv

\* Clients come with no properties and keep theirs until they leave
\* (ClientXsmp::ClientXsmp, ~ClientXsmp).
LEMMA FollowingKept ==
  ASSUME CInv, PropsFollow
  PROVE  props' \in [XsmpClients(clients') -> Array]
  <1>1. <<>> \in Array
    BY DEF Array, Distinct
  <1> QED BY <1>1 DEF CInv, PropsFollow

\* The properties of one client change with a message from it
\* (ClientManager::on_set_properties_cb).
LEMMA SetPropertiesKept ==
  ASSUME CInv, NEW a \in IceConn, NEW message \in Seq(Property), SetProperties(a, message)
  PROVE  /\ props' \in [XsmpClients(clients) -> Array]
         /\ \E i \in ClientOf(a) :
              /\ i \in XsmpClients(clients)
              /\ props' = [props EXCEPT ![i] = UpdateEach(props[i], message)]
  <1>1. PICK i \in ClientOf(a) : props' = [props EXCEPT ![i] = UpdateEach(props[i], message)]
    BY DEF SetProperties
  <1>2. i \in XsmpClients(clients)
    BY DEF ClientOf, XsmpClients
  <1>3. UpdateEach(props[i], message) \in Array
    <2>1. props[i] \in Array /\ Len(message) \in Nat
      BY <1>2 DEF CInv
    <2>2. PICK u \in [0 .. Len(message) -> Array] : UpdateEach(props[i], message) = u[Len(message)]
      BY <2>1, UpdateEachLoops
    <2> QED BY <2>1, <2>2
  <1> QED BY <1>1, <1>2, <1>3 DEF CInv

\* Likewise (ClientManager::on_delete_properties_cb).
LEMMA DeletePropertiesKept ==
  ASSUME CInv, NEW a \in IceConn, NEW names \in Seq(Name), DeleteProperties(a, names)
  PROVE  /\ props' \in [XsmpClients(clients) -> Array]
         /\ \E i \in ClientOf(a) :
              /\ i \in XsmpClients(clients)
              /\ props' = [props EXCEPT ![i] = DeleteEach(props[i], names)]
  <1>1. PICK i \in ClientOf(a) : props' = [props EXCEPT ![i] = DeleteEach(props[i], names)]
    BY DEF DeleteProperties
  <1>2. i \in XsmpClients(clients)
    BY DEF ClientOf, XsmpClients
  <1>3. DeleteEach(props[i], names) \in Array
    <2>1. props[i] \in Array /\ Len(names) \in Nat
      BY <1>2 DEF CInv
    <2>2. PICK u \in [0 .. Len(names) -> Array] : DeleteEach(props[i], names) = u[Len(names)]
      BY <2>1, DeleteEachLoops
    <2> QED BY <2>1, <2>2
  <1> QED BY <1>1, <1>2, <1>3 DEF CInv

\* Every step keeps the invariant.
LEMMA ClientNextCInv == CInv /\ [ClientNext]_clientVars => CInv'
  <1> SUFFICES ASSUME CInv, [ClientNext]_clientVars PROVE CInv'
    OBVIOUS
  <1>1. [Next]_vars
    BY DEF ClientNext, clientVars, SetProperties, DeleteProperties
  <1>2. IInv'
    BY <1>1, NextIInv DEF CInv
  <1>3. CASE Next /\ PropsFollow
    BY <1>2, <1>3, FollowingKept DEF CInv
  <1>4. ASSUME NEW a \in IceConn, NEW message \in Message, SetProperties(a, message)
        PROVE  CInv'
    <2>1. message \in Seq(Property) /\ clients' = clients
      BY <1>4, PropertyAssumption DEF SetProperties, vars
    <2> QED BY <1>2, <1>4, <2>1, SetPropertiesKept DEF CInv
  <1>5. ASSUME NEW a \in IceConn, NEW names \in Deletion, DeleteProperties(a, names)
        PROVE  CInv'
    <2>1. names \in Seq(Name) /\ clients' = clients
      BY <1>5, PropertyAssumption DEF DeleteProperties, vars
    <2> QED BY <1>2, <1>5, <2>1, DeletePropertiesKept DEF CInv
  <1>6. CASE UNCHANGED clientVars
    BY <1>2, <1>6 DEF clientVars, vars, CInv
  <1> QED BY <1>3, <1>4, <1>5, <1>6 DEF ClientNext

\* The inductive invariant holds in every reachable state.
THEOREM PropertiesInvariance == ClientSpec => []CInv
  BY ClientInitCInv, ClientNextCInv, PTL DEF ClientSpec

\* Every XSMP client, and no other, has an array of properties, and the arrays hold
\* properties (ClientXsmp::props_).
THEOREM PropertiesTyped == ClientSpec => []ClientTypeOK
  <1>1. CInv => ClientTypeOK
    BY DEF CInv, IInv, ClientTypeOK, Array
  <1> QED BY <1>1, PropertiesInvariance, PTL

\* However messages set and delete properties, several at a time, GetProperties is
\* answered with each of them once (ClientXsmp::update_property, delete_property).
THEOREM NoPropertyTwice == ClientSpec => []OnePropertyEach
  <1>1. CInv => OnePropertyEach
    BY DEF CInv, OnePropertyEach, Array, Distinct
  <1> QED BY <1>1, PropertiesInvariance, PTL

-----------------------------------------------------------------------------
(* The array of a client implements the map of PropertyMap.                  *)

\* The table of a client is that of its array.
LEMMA TableOfClient ==
  ASSUME CInv
  PROVE  /\ DOMAIN Table = XsmpClients(clients)
         /\ Table \in [XsmpClients(clients) -> [Name -> Value \cup {Missing}]]
         /\ \A i \in XsmpClients(clients), n \in Name : Table[i][n] = ValueOf(props[i], n)
  <1>1. ASSUME NEW i \in XsmpClients(clients), NEW n \in Name
        PROVE  ValueOf(props[i], n) \in Value \cup {Missing}
    <2>1. props[i] \in Seq(Property) /\ Distinct(props[i])
      BY DEF CInv, Array
    <2>2. \A k \in DOMAIN props[i] : props[i][k] \in Property
      BY <2>1
    <2>3. \A k \in DOMAIN props[i] : props[i][k].value \in Value
      BY <2>2 DEF Property
    <2> QED BY <2>1, <2>3, ValueOfFinds
  <1> QED BY <1>1 DEF Table, CInv

\* A step of connections and clients adds or removes one XSMP client at most.
LEMMA OneClientChanges ==
  ASSUME IInv, Next
  PROVE  \/ XsmpClients(clients') = XsmpClients(clients)
         \/ \E i \in Id \ XsmpClients(clients) :
              XsmpClients(clients') = XsmpClients(clients) \cup {i}
         \/ \E i \in Id \cap XsmpClients(clients) :
              XsmpClients(clients') = XsmpClients(clients) \ {i}
  <1>1. TypeOK /\ DOMAIN clients \subseteq Id
    BY DEF IInv, TypeOK
  <1>2. ASSUME NEW i \in Id, NEW c \in IceConn \cup BusName, AddClient(i, c)
        PROVE  XsmpClients(clients') =
                 IF c \in BusName THEN XsmpClients(clients) ELSE XsmpClients(clients) \cup {i}
    <2>1. /\ DOMAIN clients' = DOMAIN clients \cup {i} /\ clients'[i] = c
          /\ \A j \in DOMAIN clients : clients'[j] = clients[j] /\ j # i
      BY <1>1, <1>2, AddClientAdds
    <2> QED BY <2>1 DEF XsmpClients
  <1>3. ASSUME NEW i \in DOMAIN clients, clients' = Without({i})
        PROVE  XsmpClients(clients') = XsmpClients(clients) \ {i}
    <2>1. /\ DOMAIN clients' = DOMAIN clients \ {i}
          /\ \A j \in DOMAIN clients' : clients'[j] = clients[j]
      BY <1>1, <1>3, WithoutRemoves
    <2> QED BY <2>1 DEF XsmpClients
  <1>4. ASSUME NEW a \in IceConn, NEW i \in Id, RegisterClient(a, i)
        PROVE  i \notin XsmpClients(clients) /\ XsmpClients(clients') = XsmpClients(clients) \cup {i}
    BY <1>2, <1>4, ConnectionAssumption DEF RegisterClient, AddClient, XsmpClients
  <1>5. ASSUME NEW n \in BusName, NEW i \in Id, RegisterDBusClient(i, n)
        PROVE  XsmpClients(clients') = XsmpClients(clients)
    BY <1>2, <1>5 DEF RegisterDBusClient
  <1>6. ASSUME NEW i \in DOMAIN clients, clients' = Without({i})
        PROVE  \/ XsmpClients(clients') = XsmpClients(clients)
               \/ /\ i \in Id \cap XsmpClients(clients)
                  /\ XsmpClients(clients') = XsmpClients(clients) \ {i}
    BY <1>1, <1>3, <1>6
  <1>7. ASSUME NEW a \in IceConn, CloseConnection(a)
        PROVE  \/ clients' = clients
               \/ \E i \in DOMAIN clients : clients' = Without({i})
    <2>1. clients' = Without(ClientOf(a)) /\ ClientOf(a) \in SUBSET {conns[a].id}
      BY <1>7 DEF CloseConnection, ClientOf
    <2>2. CASE ClientOf(a) = {}
      BY <1>1, <2>1, <2>2 DEF Without, Restrict, TypeOK
    <2>3. CASE ClientOf(a) # {}
      <3>1. ClientOf(a) = {conns[a].id} /\ conns[a].id \in DOMAIN clients
        BY <2>1, <2>3 DEF ClientOf
      <3> QED BY <2>1, <3>1
    <2> QED BY <2>2, <2>3
  <1>8. ASSUME NEW a \in IceConn, IOError(a)
        PROVE  \/ clients' = clients
               \/ \E i \in DOMAIN clients : clients' = Without({i})
    BY <1>8 DEF IOError, ClientAt
  <1>9. ASSUME NEW n \in BusName, NameOwnerChanged(n)
        PROVE  \E i \in DOMAIN clients : clients' = Without({i})
    BY <1>9 DEF NameOwnerChanged, ClientsNamed
  <1>10. ASSUME NEW a \in IceConn,
                \/ Accept(a) \/ ProtocolTimeout(a) \/ ConnectionClosed(a)
                \/ Authenticated(a) \/ NewClientConnection(a)
         PROVE  clients' = clients
    BY <1>10 DEF Accept, ProtocolTimeout, ConnectionClosed, Authenticated,
                 NewClientConnection
  <1> QED BY <1>4, <1>5, <1>6, <1>7, <1>8, <1>9, <1>10 DEF Next

\* A client that comes registers with no values, one that leaves takes its values
\* away, and all others keep theirs.
LEMMA FollowingImplements ==
  ASSUME CInv, CInv', Next, PropsFollow
  PROVE  [PropertyTable!MapNext]_Table
  <1> DEFINE X == XsmpClients(clients)
             Y == XsmpClients(clients')
             NoValues == [n \in Name |-> Missing]
  <1>1. DOMAIN Table = X /\ Table \in [X -> [Name -> Value \cup {Missing}]]
    BY TableOfClient
  <1>2. ASSUME NEW n PROVE ValueOf(<<>>, n) = Missing
    <2>1. <<>> \in Seq(Property) /\ Distinct(<<>>) /\ DOMAIN <<>> = {}
      BY DEF Distinct
    <2> QED BY <2>1, ValueOfFinds
  <1>3. Table' = [i \in Y |-> IF i \in X THEN Table[i] ELSE NoValues]
    <2>1. DOMAIN props = X /\ DOMAIN props' = Y
      BY DEF CInv
    <2>2. ASSUME NEW i \in Y
          PROVE  [n \in Name |-> ValueOf(props'[i], n)]
                   = IF i \in X THEN Table[i] ELSE NoValues
      <3>1. CASE i \in X
        <4>1. props'[i] = props[i]
          BY <2>1, <3>1 DEF PropsFollow
        <4> QED BY <2>1, <3>1, <4>1 DEF Table
      <3>2. CASE i \notin X
        <4>1. props'[i] = <<>>
          BY <2>1, <3>2 DEF PropsFollow
        <4> QED BY <1>2, <3>2, <4>1
      <3> QED BY <3>1, <3>2
    <2> QED BY <2>1, <2>2 DEF Table
  <1> HIDE DEF X, Y, NoValues
  <1>4. CASE Y = X
    BY <1>1, <1>3, <1>4
  <1>5. ASSUME NEW i \in Id, i \notin X, Y = X \cup {i}
        PROVE  PropertyTable!Register(i)
    BY <1>1, <1>3, <1>5 DEF PropertyTable!Register, NoValues
  <1>6. ASSUME NEW i \in Id, i \in X, Y = X \ {i}
        PROVE  PropertyTable!Leave(i)
    BY <1>1, <1>3, <1>6 DEF PropertyTable!Leave
  <1>7. IInv
    BY DEF CInv
  <1> QED BY <1>4, <1>5, <1>6, <1>7, OneClientChanges DEF PropertyTable!MapNext, X, Y

\* SetProperties sets the last value of each name in the message, for the client that
\* sent it alone.
LEMMA SetPropertiesImplements ==
  ASSUME CInv, NEW a \in IceConn, NEW message \in Message, SetProperties(a, message)
  PROVE  \E i \in ClientOf(a) : i \in Id /\ PropertyTable!SetMessage(i, message)
  <1>1. message \in Seq(Property)
    BY PropertyAssumption
  <1>2. PICK i \in ClientOf(a) :
          /\ i \in XsmpClients(clients)
          /\ props' = [props EXCEPT ![i] = UpdateEach(props[i], message)]
    BY <1>1, SetPropertiesKept
  <1>3. /\ DOMAIN props = XsmpClients(clients) /\ DOMAIN props' = XsmpClients(clients)
        /\ props[i] \in Array
        /\ props'[i] = UpdateEach(props[i], message)
        /\ \A j \in XsmpClients(clients) : j # i => props'[j] = props[j]
    BY <1>2 DEF CInv
  <1> DEFINE ValueSet(n) ==
        IF PropertyTable!Places(message, n) = {} THEN Table[i][n]
        ELSE PropertyTable!LastValue(message, n)
  <1>4. ASSUME NEW n \in Name
        PROVE  ValueOf(props'[i], n) = ValueSet(n)
    <2>1. Table[i][n] = ValueOf(props[i], n)
      BY <1>2, TableOfClient
    <2> QED BY <1>1, <1>3, <2>1, UpdateEachSetsLast
  <1> HIDE DEF ValueSet
  <1>5. Table' = [Table EXCEPT ![i] = [n \in Name |-> ValueSet(n)]]
    <2>1. DOMAIN Table = XsmpClients(clients) /\ DOMAIN Table' = XsmpClients(clients)
      BY <1>3 DEF Table
    <2>2. Table'[i] = [n \in Name |-> ValueSet(n)]
      BY <1>2, <1>3, <1>4 DEF Table
    <2>3. \A j \in XsmpClients(clients) : j # i => Table'[j] = Table[j]
      BY <1>3 DEF Table
    <2>4. Table' = [j \in XsmpClients(clients) |->
                      IF j = i THEN [n \in Name |-> ValueSet(n)] ELSE Table[j]]
      <3>1. Table' = [j \in XsmpClients(clients) |-> Table'[j]]
        BY <2>1 DEF Table
      <3> QED BY <3>1, <2>2, <2>3
    <2>5. Table = [j \in XsmpClients(clients) |-> Table[j]]
      BY <2>1 DEF Table
    <2> QED BY <1>2, <2>4, <2>5
  <1>6. i \in DOMAIN Table /\ i \in Id
    BY <1>2, TableOfClient DEF CInv, IInv, TypeOK, XsmpClients
  <1>7. PropertyTable!SetMessage(i, message)
    BY <1>5, <1>6 DEF PropertyTable!SetMessage, ValueSet
  <1> QED BY <1>6, <1>7

\* DeleteProperties clears the names in the message, for the client that sent it alone.
LEMMA DeletePropertiesImplements ==
  ASSUME CInv, NEW a \in IceConn, NEW names \in Deletion, DeleteProperties(a, names)
  PROVE  \E i \in ClientOf(a) :
           /\ i \in Id
           /\ Range(names) \in SUBSET Name
           /\ PropertyTable!DeleteMessage(i, Range(names))
  <1>1. names \in Seq(Name)
    BY PropertyAssumption
  <1>2. PICK i \in ClientOf(a) :
          /\ i \in XsmpClients(clients)
          /\ props' = [props EXCEPT ![i] = DeleteEach(props[i], names)]
    BY <1>1, DeletePropertiesKept
  <1>3. /\ DOMAIN props = XsmpClients(clients) /\ DOMAIN props' = XsmpClients(clients)
        /\ props[i] \in Array
        /\ props'[i] = DeleteEach(props[i], names)
        /\ \A j \in XsmpClients(clients) : j # i => props'[j] = props[j]
    BY <1>2 DEF CInv
  <1> DEFINE ValueLeft(n) == IF n \in Range(names) THEN Missing ELSE Table[i][n]
  <1>4. ASSUME NEW n \in Name
        PROVE  ValueOf(props'[i], n) = ValueLeft(n)
    <2>1. Table[i][n] = ValueOf(props[i], n)
      BY <1>2, TableOfClient
    <2> QED BY <1>1, <1>3, <2>1, DeleteEachClears
  <1> HIDE DEF ValueLeft
  <1>5. Table' = [Table EXCEPT ![i] = [n \in Name |-> ValueLeft(n)]]
    <2>1. DOMAIN Table = XsmpClients(clients) /\ DOMAIN Table' = XsmpClients(clients)
      BY <1>3 DEF Table
    <2>2. Table'[i] = [n \in Name |-> ValueLeft(n)]
      BY <1>2, <1>3, <1>4 DEF Table
    <2>3. \A j \in XsmpClients(clients) : j # i => Table'[j] = Table[j]
      BY <1>3 DEF Table
    <2>4. Table' = [j \in XsmpClients(clients) |->
                      IF j = i THEN [n \in Name |-> ValueLeft(n)] ELSE Table[j]]
      <3>1. Table' = [j \in XsmpClients(clients) |-> Table'[j]]
        BY <2>1 DEF Table
      <3> QED BY <3>1, <2>2, <2>3
    <2>5. Table = [j \in XsmpClients(clients) |-> Table[j]]
      BY <2>1 DEF Table
    <2> QED BY <1>2, <2>4, <2>5
  <1>6. i \in DOMAIN Table /\ i \in Id
    BY <1>2, TableOfClient DEF CInv, IInv, TypeOK, XsmpClients
  <1>7. PropertyTable!DeleteMessage(i, Range(names))
    BY <1>5, <1>6 DEF PropertyTable!DeleteMessage, ValueLeft
  <1>8. Range(names) \in SUBSET Name
    BY <1>1 DEF Range
  <1> QED BY <1>6, <1>7, <1>8

\* The initial table is empty.
LEMMA ClientInitImplements == ClientInit => PropertyTable!MapInit
  BY DEF ClientInit, PropertyTable!MapInit, Table

\* Every step is one of the table.
LEMMA ClientNextImplements ==
  CInv /\ CInv' /\ [ClientNext]_clientVars => [PropertyTable!MapNext]_Table
  <1> SUFFICES ASSUME CInv, CInv', [ClientNext]_clientVars
               PROVE  [PropertyTable!MapNext]_Table
    OBVIOUS
  <1>1. CASE Next /\ PropsFollow
    BY <1>1, FollowingImplements
  <1>2. ASSUME NEW a \in IceConn, NEW message \in Message, SetProperties(a, message)
        PROVE  PropertyTable!MapNext
    BY <1>2, SetPropertiesImplements DEF PropertyTable!MapNext
  <1>3. ASSUME NEW a \in IceConn, NEW names \in Deletion, DeleteProperties(a, names)
        PROVE  PropertyTable!MapNext
    BY <1>3, DeletePropertiesImplements DEF PropertyTable!MapNext
  <1>4. CASE UNCHANGED clientVars
    BY <1>4 DEF clientVars, Table
  <1> QED BY <1>1, <1>2, <1>3, <1>4 DEF ClientNext

\* What a message does is what the table says of it.
LEMMA MessagesImplement == CInv => MessagesTakeEffect
  BY SetPropertiesImplements, DeletePropertiesImplements DEF MessagesTakeEffect

\* A client has by name the values that were set last and not deleted since, and a
\* message has its whole effect, whatever ids and addresses are used again and
\* however the array is ordered (ClientManager::on_set_properties_cb,
\* on_delete_properties_cb, ClientXsmp).
THEOREM PropertiesAreAMap == ClientSpec => ImplementsPropertyMap
  <1>1. CInv => [MessagesTakeEffect]_clientVars
    BY MessagesImplement
  <1> QED BY <1>1, ClientInitImplements, ClientNextImplements, PropertiesInvariance, PTL
          DEF ClientSpec, PropertyTable!MapSpec, ImplementsPropertyMap
=============================================================================
