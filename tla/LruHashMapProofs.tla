-------------------------- MODULE LruHashMapProofs --------------------------
(***************************************************************************)
(* Proofs about LruHashMap, for every set of keys, values and addresses    *)
(* and every max_entries: the list stays sound, the entries alive are      *)
(* those of the map, and no operation goes through a null pointer, but the *)
(* first insertion into a map of capacity 0.                               *)
(*                                                                         *)
(* The first part is about chains alone: a next and a previous pointer for *)
(* each address, a head, a tail and the set E of linked addresses.  That   *)
(* E is reachable from the head is said without walking: a subset of E     *)
(* that holds the head and is closed under next is E itself.               *)
(***************************************************************************)
EXTENDS LruHashMap, FiniteSetTheorems, TLAPS

\* A subset of E that holds the head and follows next.
Follows(nx, h, S) ==
    /\ h # Null => h \in S
    /\ \A a \in S : nx[a] \in S \cup {Null}

Chain(nx, pv, h, t, E) ==
    /\ E \subseteq Addrs /\ h \in E \cup {Null} /\ t \in E \cup {Null}
    /\ h # Null => pv[h] = Null /\ t # Null
    /\ t # Null => nx[t] = Null /\ h # Null
    /\ \A a \in E : nx[a] \in E \cup {Null}
    /\ \A a \in E : nx[a] # Null => pv[nx[a]] = a
    /\ \A a \in E : nx[a] = Null => a = t
    /\ \A S \in SUBSET E : Follows(nx, h, S) => S = E

Links == [Pointers -> Pointers]

\* The list as a record, and its fields as functions of the address.
Lists == [mem : [Pointers -> Entry], head : Pointers, tail : Pointers]
NextOf(l) == [a \in Pointers |-> l.mem[a].next]
PrevOf(l) == [a \in Pointers |-> l.mem[a].prev]
KeyOf(l) == [a \in Pointers |-> l.mem[a].key]

ListOk(l, E) ==
    /\ l \in Lists /\ l.mem[Null] = Blank
    /\ Chain(NextOf(l), PrevOf(l), l.head, l.tail, E)

\* The entries the map owns; each holds the key of its node.
Entries(map) == {map[k].entry : k \in DOMAIN map}
KeysOk(map, l) == \A k \in DOMAIN map : KeyOf(l)[map[k].entry] = k

MapOk(map) ==
    /\ max_entries \in 0..MaxEntries
    /\ DOMAIN map \subseteq Keys
    /\ map \in [DOMAIN map -> [value : Values, entry : Addrs]]
    /\ IsFiniteSet(DOMAIN map) /\ Cardinality(DOMAIN map) <= max_entries

Results == Values \cup {"ok", "ENOENT", "EEXIST", "EINVAL"}

Inv ==
    /\ MapOk(map_impl) /\ ListOk(List, Entries(map_impl))
    /\ KeysOk(map_impl, List) /\ ret \in Results

\* What the insertion into a map of capacity 0 leaves.
Lost ==
    /\ max_entries = 0 /\ DOMAIN map_impl = {} /\ ret \in Results
    /\ head = Null /\ tail = Null
    /\ mem \in [Pointers -> Entry] /\ mem[Null] = Fault

----------------------------------------------------------------------------
(* Chains *)

\* A chain with an address in it has a head and a tail.
LEMMA LinkedEnds ==
    ASSUME NEW nx, NEW pv, NEW h, NEW t, NEW E, Chain(nx, pv, h, t, E), E # {}
    PROVE  h \in E /\ t \in E /\ Null \notin E
<1>1. h # Null
  <2> SUFFICES ASSUME h = Null PROVE FALSE
    BY Zenon
  <2>1. {} \in SUBSET E /\ Follows(nx, h, {})
    BY Zenon DEF Follows
  <2>2. E = {}
    BY Zenon, <2>1 DEF Chain
  <2> QED BY Zenon, <2>2
<1> QED BY Zenon, <1>1, AddrsAssumption DEF Chain

\* Every linked address but the head has a previous one, which links to it.
LEMMA HasPrevious ==
    ASSUME NEW nx, NEW pv, NEW h, NEW t, NEW E, Chain(nx, pv, h, t, E),
           NEW e \in E, e # h
    PROVE  pv[e] \in E \ {e} /\ nx[pv[e]] = e
<1>1. Null \notin E /\ h # Null
  BY LinkedEnds
<1>2. PICK b \in E \ {e} : nx[b] = e
  <2> SUFFICES ASSUME \A b \in E \ {e} : nx[b] # e PROVE FALSE
    BY Zenon
  <2>1. Follows(nx, h, E \ {e})
    <3>1. h \in E \ {e}
      BY Zenon, <1>1 DEF Chain
    <3>2. ASSUME NEW b \in E \ {e} PROVE nx[b] \in (E \ {e}) \cup {Null}
      BY Zenon DEF Chain
    <3> QED BY Zenon, <3>1, <3>2 DEF Follows
  <2>2. E \ {e} = E
    BY Zenon, <2>1 DEF Chain
  <2> QED BY Zenon, <2>2
<1>3. pv[e] = b
  BY Zenon, <1>1, <1>2 DEF Chain
<1> QED BY Zenon, <1>2, <1>3

\* move_to_head on a chain.
LEMMA ChainMove ==
    ASSUME NEW nx \in Links, NEW pv \in Links, NEW h, NEW t, NEW E,
           Chain(nx, pv, h, t, E), NEW e \in E, e # h,
           NEW nx2, NEW pv2, NEW t2,
           \A a \in E : nx2[a] = IF a = e THEN h
                                 ELSE IF a = pv[e] THEN nx[e] ELSE nx[a],
           \A a \in E : pv2[a] = IF a = h THEN e ELSE IF a = e THEN Null
                                 ELSE IF a = nx[e] THEN pv[e] ELSE pv[a],
           t2 = IF nx[e] = Null THEN pv[e] ELSE t
    PROVE  Chain(nx2, pv2, e, t2, E)
<1>1. PICK p \in E : p = pv[e] /\ nx[p] = e /\ p # e
  BY HasPrevious
<1>2. PICK n : n = nx[e] /\ n \in E \cup {Null}
  BY Zenon DEF Chain
<1>3. /\ Null \notin E /\ h \in E /\ pv[h] = Null /\ t \in E /\ nx[t] = Null
      /\ e # Null
  <2>1. h \in E /\ t \in E /\ Null \notin E
    BY LinkedEnds
  <2> QED BY Zenon, <2>1 DEF Chain
<1>4. nx2[e] = h /\ nx2[p] = n /\ pv2[e] = Null /\ pv2[h] = e
  BY Zenon, <1>1, <1>2, <1>3
<1>5. \A a \in E : a # e /\ a # p => nx2[a] = nx[a]
  BY Zenon, <1>1
<1>6. n # h /\ n # e
  BY <1>1, <1>2, <1>3 DEF Chain
<1>7. \A a \in E : nx2[a] \in E \cup {Null}
  <2> SUFFICES ASSUME NEW a \in E PROVE nx2[a] \in E \cup {Null}
    BY Zenon
  <2>1. nx[a] \in E \cup {Null}
    BY Zenon DEF Chain
  <2> QED BY Zenon, <2>1, <1>2, <1>3, <1>4, <1>5
<1>8. \A a \in E : nx2[a] # Null => pv2[nx2[a]] = a
  <2> SUFFICES ASSUME NEW a \in E, nx2[a] # Null PROVE pv2[nx2[a]] = a
    BY Zenon
  <2>1. CASE a = e
    BY Zenon, <2>1, <1>4
  <2>2. CASE a = p
    <3>1. n \in E /\ nx2[a] = n
      BY Zenon, <2>2, <1>2, <1>4
    <3>2. pv2[n] = p
      BY Zenon, <3>1, <1>1, <1>2, <1>6
    <3> QED BY Zenon, <3>1, <3>2, <2>2
  <2>3. CASE a # e /\ a # p
    <3>1. PICK y : y = nx[a] /\ y = nx2[a] /\ y \in E /\ pv[y] = a
      BY Zenon, <2>3, <1>5 DEF Chain
    <3>2. y # h /\ y # e /\ y # n
      <4>1. y # h
        BY <3>1, <1>3
      <4>2. y # e
        BY Zenon, <3>1, <1>1, <2>3
      <4>3. y # n
        <5>1. n \in E => pv[n] = e
          BY Zenon, <1>2, <1>3 DEF Chain
        <5> QED BY Zenon, <5>1, <3>1, <2>3
      <4> QED BY Zenon, <4>1, <4>2, <4>3
    <3> QED BY Zenon, <3>1, <3>2, <1>2
  <2> QED BY Zenon, <2>1, <2>2, <2>3
<1>9. /\ t2 \in E /\ nx2[t2] = Null
      /\ \A a \in E : nx2[a] = Null => a = t2
  <2>1. CASE n = Null
    <3>1. t2 = p /\ nx2[p] = Null
      BY Zenon, <2>1, <1>1, <1>2, <1>4
    <3>2. e = t
      BY Zenon, <2>1, <1>2 DEF Chain
    <3>3. ASSUME NEW a \in E, nx2[a] = Null PROVE a = p
      <4>1. a # e
        BY <3>3, <1>3, <1>4
      <4>2. a # p => nx[a] = Null /\ a = t
        BY Zenon, <3>3, <4>1, <1>5 DEF Chain
      <4> QED BY Zenon, <4>1, <4>2, <3>2
    <3> QED BY Zenon, <3>1, <3>3, <1>1
  <2>2. CASE n # Null
    <3>1. t2 = t /\ t # e /\ t # p
      BY Zenon, <2>2, <1>1, <1>2, <1>3
    <3>2. nx2[t] = Null
      BY Zenon, <3>1, <1>3, <1>5
    <3>3. ASSUME NEW a \in E, nx2[a] = Null PROVE a = t
      <4>1. a # e /\ a # p
        BY Zenon, <3>3, <2>2, <1>3, <1>4
      <4> QED BY Zenon, <4>1, <3>3, <1>5 DEF Chain
    <3> QED BY Zenon, <3>1, <3>2, <3>3, <1>3
  <2> QED BY Zenon, <2>1, <2>2
<1>10. ASSUME NEW S \in SUBSET E, Follows(nx2, e, S) PROVE S = E
  <2>1. e \in S /\ \A a \in S : nx2[a] \in S \cup {Null}
    BY Zenon, <1>10, <1>3 DEF Follows
  <2>2. h \in S
    BY Zenon, <2>1, <1>3, <1>4
  <2>3. CASE p \in S
    <3>1. ASSUME NEW a \in S PROVE nx[a] \in S \cup {Null}
      BY Zenon, <2>1, <2>3, <1>1, <1>2, <1>4, <1>5
    <3>2. Follows(nx, h, S)
      BY Zenon, <3>1, <2>2 DEF Follows
    <3> QED BY Zenon, <3>2 DEF Chain
  <2>4. CASE p \notin S
    <3>1. ASSUME NEW a \in S \ {e} PROVE nx[a] \in (S \ {e}) \cup {Null}
      <4>1. a \in E /\ a # e /\ a # p /\ nx[a] = nx2[a]
        BY Zenon, <2>4, <1>5
      <4>2. nx[a] # e
        BY <4>1, <1>1, <1>3 DEF Chain
      <4> QED BY Zenon, <4>1, <4>2, <2>1
    <3>2. h \in S \ {e} /\ S \ {e} \in SUBSET E
      BY Zenon, <2>2
    <3>3. Follows(nx, h, S \ {e})
      BY Zenon, <3>1, <3>2 DEF Follows
    <3>4. S \ {e} = E
      BY Zenon, <3>2, <3>3 DEF Chain
    <3> QED BY Zenon, <3>4
  <2> QED BY Zenon, <2>3, <2>4
<1>11. E \subseteq Addrs
  BY Zenon DEF Chain
<1> QED BY Zenon, <1>3, <1>4, <1>7, <1>8, <1>9, <1>10, <1>11 DEF Chain

\* What insert_new_entry does to a chain.
Inserted(nx, pv, h, t, E, e, nx2, pv2, t2) ==
    /\ e \in Addrs /\ e \notin E /\ nx2[e] = h /\ pv2[e] = Null
    /\ \A a \in E : nx2[a] = nx[a]
    /\ \A a \in E : pv2[a] = IF a = h THEN e ELSE pv[a]
    /\ t2 = IF h = Null THEN e ELSE t

\* insert_new_entry on a chain.
LEMMA ChainInsert ==
    ASSUME NEW nx, NEW pv, NEW h, NEW t, NEW E, Chain(nx, pv, h, t, E),
           NEW e, NEW nx2, NEW pv2, NEW t2,
           Inserted(nx, pv, h, t, E, e, nx2, pv2, t2)
    PROVE  Chain(nx2, pv2, e, t2, E \cup {e})
<1>0. /\ e \in Addrs /\ e \notin E /\ nx2[e] = h /\ pv2[e] = Null
      /\ \A a \in E : nx2[a] = nx[a]
      /\ \A a \in E : pv2[a] = IF a = h THEN e ELSE pv[a]
      /\ t2 = IF h = Null THEN e ELSE t
  BY Zenon DEF Inserted
<1>1. e # Null /\ Null \notin E /\ E \subseteq Addrs
  BY Zenon, <1>0, AddrsAssumption DEF Chain
<1>2. CASE h = Null
  <2>1. E = {}
    BY <1>2, <1>1, LinkedEnds
  <2>2. ASSUME NEW S \in SUBSET (E \cup {e}), Follows(nx2, e, S)
        PROVE  S = E \cup {e}
    BY <1>0, <2>1, <2>2, <1>1 DEF Follows
  <2>3. t2 = e /\ nx2[e] = Null
    BY Zenon, <1>0, <1>2
  <2> QED BY Zenon, <1>0, <2>1, <2>2, <2>3, <1>1 DEF Chain
<1>3. CASE h # Null
  <2>1. h \in E /\ t \in E /\ t2 = t /\ nx[t] = Null /\ pv[h] = Null
    BY Zenon, <1>0, <1>3 DEF Chain
  <2>2. pv2[h] = e /\ nx2[t] = Null
    BY Zenon, <1>0, <2>1
  <2>3. ASSUME NEW a \in E
        PROVE  /\ nx2[a] \in E \cup {Null}
               /\ nx2[a] # Null => pv2[nx2[a]] = a
               /\ nx2[a] = Null => a = t
    <3>1. PICK y : y = nx[a] /\ y = nx2[a]
      BY Zenon, <1>0
    <3>2. y \in E \cup {Null} /\ (y # Null => pv[y] = a) /\ (y = Null => a = t)
      BY Zenon, <1>0, <3>1 DEF Chain
    <3>3. y # h
      BY Zenon, <1>0, <3>2, <2>1, <1>1, <1>3
    <3>4. y # Null => pv2[y] = a
      BY Zenon, <1>0, <3>2, <3>3
    <3> QED BY Zenon, <1>0, <3>1, <3>2, <3>4
  <2>4. ASSUME NEW S \in SUBSET (E \cup {e}), Follows(nx2, e, S)
        PROVE  S = E \cup {e}
    <3>1. e \in S /\ \A a \in S : nx2[a] \in S \cup {Null}
      BY Zenon, <1>0, <2>4, <1>1 DEF Follows
    <3>2. h \in S
      BY Zenon, <1>0, <3>1, <1>3
    <3>3. S \cap E \in SUBSET E /\ h \in S \cap E
      BY Zenon, <1>0, <3>2, <2>1
    <3>4. ASSUME NEW a \in S \cap E PROVE nx[a] \in (S \cap E) \cup {Null}
      BY Zenon, <1>0, <3>1, <2>3
    <3>5. Follows(nx, h, S \cap E)
      BY Zenon, <1>0, <3>3, <3>4 DEF Follows
    <3>6. S \cap E = E
      BY Zenon, <1>0, <3>3, <3>5 DEF Chain
    <3> QED BY Zenon, <1>0, <3>1, <3>6
  <2>5. ASSUME NEW a \in E \cup {e}
        PROVE  /\ nx2[a] \in E \cup {e} \cup {Null}
               /\ nx2[a] # Null => pv2[nx2[a]] = a
               /\ nx2[a] = Null => a = t
    <3>1. CASE a = e
      BY Zenon, <1>0, <3>1, <2>1, <2>2, <1>3
    <3>2. CASE a \in E
      BY Zenon, <1>0, <3>2, <2>3
    <3> QED BY Zenon, <1>0, <3>1, <3>2
  <2> QED BY Zenon, <1>0, <2>1, <2>2, <2>4, <2>5, <1>1 DEF Chain
<1> QED BY Zenon, <1>0, <1>2, <1>3

\* What evict_entry does to a chain.
Evicted(nx, pv, h, t, E, e, nx2, pv2, h2, t2) ==
    /\ e \in E
    /\ \A a \in E : nx2[a] = IF a = pv[e] THEN nx[e] ELSE nx[a]
    /\ \A a \in E : pv2[a] = IF a = nx[e] THEN pv[e] ELSE pv[a]
    /\ h2 = IF e = h THEN nx[e] ELSE h
    /\ t2 = IF e = t THEN pv[e] ELSE t

\* evict_entry on a chain: what is before e links to what is after it.
LEMMA ChainEvict ==
    ASSUME NEW nx, NEW pv, NEW h, NEW t, NEW E, Chain(nx, pv, h, t, E),
           NEW e, NEW nx2, NEW pv2, NEW h2, NEW t2,
           Evicted(nx, pv, h, t, E, e, nx2, pv2, h2, t2)
    PROVE  Chain(nx2, pv2, h2, t2, E \ {e})
<1> SUFFICES ASSUME e \in E,
                    \A a \in E : nx2[a] = IF a = pv[e] THEN nx[e] ELSE nx[a],
                    \A a \in E : pv2[a] = IF a = nx[e] THEN pv[e] ELSE pv[a],
                    h2 = IF e = h THEN nx[e] ELSE h,
                    t2 = IF e = t THEN pv[e] ELSE t
             PROVE  Chain(nx2, pv2, h2, t2, E \ {e})
  BY Zenon DEF Evicted
<1>1. PICK p, n : p = pv[e] /\ n = nx[e]
  BY Zenon
<1>2. /\ h \in E /\ t \in E /\ Null \notin E /\ pv[h] = Null /\ nx[t] = Null
      /\ E \subseteq Addrs
  <2>1. h \in E /\ t \in E /\ Null \notin E
    BY LinkedEnds
  <2> QED BY Zenon, <2>1 DEF Chain
<1>3. e # h => p \in E \ {e} /\ nx[p] = e
  BY <1>1, HasPrevious
<1>4. e = h => p = Null
  BY Zenon, <1>1, <1>2
<1>5. /\ n \in E \cup {Null} /\ (n # Null => pv[n] = e) /\ (n = Null <=> e = t)
  BY Zenon, <1>1, <1>2 DEF Chain
<1>6. n \in (E \ {e}) \cup {Null} /\ p \in (E \ {e}) \cup {Null}
  BY Zenon, <1>1, <1>2, <1>3, <1>4, <1>5
<1>7. ASSUME NEW a \in E PROVE nx[a] = e <=> a = p /\ e # h
  <2>1. nx[a] = e => pv[e] = a
    <3>1. nx[a] # Null => pv[nx[a]] = a
      BY Zenon DEF Chain
    <3> QED BY <3>1, <1>2
  <2> QED BY <2>1, <1>1, <1>2, <1>3, <1>4
<1>8. (p \in E => nx2[p] = n) /\ (n \in E => pv2[n] = p)
  BY Zenon, <1>1
<1>9. /\ \A a \in E : a # p => nx2[a] = nx[a]
      /\ \A a \in E : a # n => pv2[a] = pv[a]
  BY Zenon, <1>1
<1>10. ASSUME NEW a \in E \ {e}
       PROVE  /\ nx2[a] \in (E \ {e}) \cup {Null}
              /\ nx2[a] # Null => pv2[nx2[a]] = a
              /\ nx2[a] = Null => a = t2
  <2>1. CASE a = p
    <3>1. nx2[a] = n
      BY Zenon, <2>1, <1>8
    <3>2. n # Null => pv2[n] = a
      BY Zenon, <2>1, <1>6, <1>8
    <3>3. n = Null => a = t2
      BY Zenon, <2>1, <1>1, <1>5
    <3> QED BY Zenon, <3>1, <3>2, <3>3, <1>6
  <2>2. CASE a # p
    <3>1. PICK y : y = nx[a] /\ y = nx2[a]
      BY Zenon, <2>2, <1>9
    <3>2. y \in E \cup {Null} /\ (y # Null => pv[y] = a) /\ (y = Null => a = t)
      BY Zenon, <3>1 DEF Chain
    <3>3. y # e
      BY Zenon, <3>1, <2>2, <1>7
    <3>4. y # Null => y # n
      BY Zenon, <3>2, <1>5
    <3>5. y # Null => pv2[y] = a
      BY Zenon, <3>2, <3>4, <1>9
    <3>6. y = Null => a = t2
      BY Zenon, <3>2
    <3> QED BY Zenon, <3>1, <3>2, <3>3, <3>5, <3>6
  <2> QED BY Zenon, <2>1, <2>2
<1>11. /\ t2 \in (E \ {e}) \cup {Null} /\ (t2 # Null => nx2[t2] = Null)
  <2>1. CASE e = t
    BY Zenon, <2>1, <1>1, <1>5, <1>6, <1>8
  <2>2. CASE e # t
    <3>1. t2 = t /\ t # p
      BY <2>2, <1>2, <1>3, <1>4
    <3> QED BY Zenon, <3>1, <2>2, <1>2, <1>9
  <2> QED BY Zenon, <2>1, <2>2
<1>12. /\ h2 \in (E \ {e}) \cup {Null} /\ (h2 # Null => pv2[h2] = Null)
  <2>1. CASE e = h
    BY Zenon, <2>1, <1>1, <1>4, <1>6, <1>8
  <2>2. CASE e # h
    <3>1. h2 = h /\ h # n
      BY <2>2, <1>2, <1>5
    <3> QED BY Zenon, <3>1, <2>2, <1>2, <1>9
  <2> QED BY Zenon, <2>1, <2>2
<1>13. h2 # Null <=> t2 # Null
  BY Zenon, <1>1, <1>2, <1>3, <1>4, <1>5
<1>14. ASSUME NEW S \in SUBSET (E \ {e}), Follows(nx2, h2, S)
       PROVE  S = E \ {e}
  <2>1. /\ h2 # Null => h2 \in S
        /\ \A a \in S : nx2[a] \in S \cup {Null}
    BY Zenon, <1>14 DEF Follows
  <2>2. S \cup {e} \in SUBSET E /\ S \in SUBSET E /\ e \notin S
    BY Zenon
  <2>3. CASE e = h
    <3>1. n \in S \cup {Null}
      BY Zenon, <2>1, <2>3, <1>1
    <3>2. ASSUME NEW a \in S \cup {e} PROVE nx[a] \in (S \cup {e}) \cup {Null}
      BY <3>1, <2>1, <2>2, <2>3, <1>1, <1>2, <1>4, <1>9
    <3>3. Follows(nx, h, S \cup {e})
      BY Zenon, <3>2, <2>3 DEF Follows
    <3>4. S \cup {e} = E
      BY Zenon, <3>3, <2>2 DEF Chain
    <3> QED BY Zenon, <3>4, <2>2
  <2>4. CASE e # h /\ p \in S
    <3>1. n \in S \cup {Null}
      BY Zenon, <2>1, <2>2, <2>4, <1>8
    <3>2. ASSUME NEW a \in S \cup {e} PROVE nx[a] \in (S \cup {e}) \cup {Null}
      BY Zenon, <3>1, <2>1, <2>2, <2>4, <1>1, <1>3, <1>9
    <3>3. h \in S \cup {e}
      BY Zenon, <2>1, <2>4, <1>2
    <3>4. Follows(nx, h, S \cup {e})
      BY Zenon, <3>2, <3>3 DEF Follows
    <3>5. S \cup {e} = E
      BY Zenon, <3>4, <2>2 DEF Chain
    <3> QED BY Zenon, <3>5, <2>2
  <2>5. CASE e # h /\ p \notin S
    <3>1. ASSUME NEW a \in S PROVE nx[a] \in S \cup {Null}
      BY Zenon, <2>1, <2>2, <2>5, <1>9
    <3>2. h \in S
      BY Zenon, <2>1, <2>5, <1>2
    <3>3. Follows(nx, h, S)
      BY Zenon, <3>1, <3>2 DEF Follows
    <3>4. S = E
      BY Zenon, <3>3, <2>2 DEF Chain
    <3> QED BY Zenon, <3>4, <2>2
  <2> QED BY Zenon, <2>3, <2>4, <2>5
<1>15. E \ {e} \subseteq Addrs
  BY Zenon, <1>2
<1> QED BY Zenon, <1>10, <1>11, <1>12, <1>13, <1>14, <1>15 DEF Chain

----------------------------------------------------------------------------
(* Writes through a pointer that is not null *)

\* r is l after a->next_entry = p, after a->previous_entry = p, and with the
\* head h and the tail t.
NextSet(l, r, a, p) ==
    /\ r \in Lists /\ r.head = l.head /\ r.tail = l.tail
    /\ r.mem[Null] = l.mem[Null] /\ KeyOf(r) = KeyOf(l)
    /\ NextOf(r) = [NextOf(l) EXCEPT ![a] = p] /\ PrevOf(r) = PrevOf(l)

PrevSet(l, r, a, p) ==
    /\ r \in Lists /\ r.head = l.head /\ r.tail = l.tail
    /\ r.mem[Null] = l.mem[Null] /\ KeyOf(r) = KeyOf(l)
    /\ NextOf(r) = NextOf(l) /\ PrevOf(r) = [PrevOf(l) EXCEPT ![a] = p]

EndsSet(l, r, h, t) ==
    /\ r \in Lists /\ r.head = h /\ r.tail = t /\ r.mem = l.mem
    /\ KeyOf(r) = KeyOf(l)
    /\ NextOf(r) = NextOf(l) /\ PrevOf(r) = PrevOf(l)

\* a->next_entry = p changes that field and nothing else.
LEMMA SetNextFields ==
    ASSUME NEW l \in Lists, NEW a \in Addrs, NEW p \in Pointers,
           NEW r, r = SetNext(l, a, p)
    PROVE  NextSet(l, r, a, p)
<1>1. PICK e \in Entry : /\ e = [l.mem[a] EXCEPT !.next = p] /\ e.next = p
                         /\ e.prev = l.mem[a].prev /\ e.key = l.mem[a].key
  <2>1. PICK f \in Entry : f = l.mem[a]
    BY DEF Lists, Pointers
  <2>2. PICK e : e = [f EXCEPT !.next = p]
    BY Zenon
  <2>3. e \in Entry /\ e.next = p /\ e.prev = f.prev /\ e.key = f.key
    BY <2>2 DEF Entry
  <2> QED BY Zenon, <2>1, <2>2, <2>3
<1>2. r = [l EXCEPT !.mem[a] = e]
  <2>1. a # Null
    BY Zenon, AddrsAssumption
  <2>2. e = IF a = Null THEN Fault ELSE [l.mem[a] EXCEPT !.next = p]
    BY Zenon, <2>1, <1>1
  <2> QED BY <2>2 DEF SetNext, Write
<1>3. /\ r \in Lists /\ r.head = l.head /\ r.tail = l.tail
      /\ r.mem = [l.mem EXCEPT ![a] = e]
  BY <1>2 DEF Lists, Pointers
<1>4. l.mem \in [Pointers -> Entry] /\ a \in Pointers /\ a # Null
  BY AddrsAssumption DEF Lists, Pointers
<1>5. /\ KeyOf(r) = KeyOf(l) /\ PrevOf(r) = PrevOf(l)
      /\ NextOf(r) = [NextOf(l) EXCEPT ![a] = p]
  BY Zenon, <1>1, <1>3, <1>4 DEF NextOf, PrevOf, KeyOf
<1>6. Null \in Pointers
  BY Zenon DEF Pointers
<1> QED BY <1>3, <1>4, <1>5, <1>6 DEF NextSet

\* a->previous_entry = p changes that field and nothing else.
LEMMA SetPrevFields ==
    ASSUME NEW l \in Lists, NEW a \in Addrs, NEW p \in Pointers,
           NEW r, r = SetPrev(l, a, p)
    PROVE  PrevSet(l, r, a, p)
<1>1. PICK e \in Entry : /\ e = [l.mem[a] EXCEPT !.prev = p] /\ e.prev = p
                         /\ e.next = l.mem[a].next /\ e.key = l.mem[a].key
  <2>1. PICK f \in Entry : f = l.mem[a]
    BY DEF Lists, Pointers
  <2>2. PICK e : e = [f EXCEPT !.prev = p]
    BY Zenon
  <2>3. e \in Entry /\ e.prev = p /\ e.next = f.next /\ e.key = f.key
    BY <2>2 DEF Entry
  <2> QED BY Zenon, <2>1, <2>2, <2>3
<1>2. r = [l EXCEPT !.mem[a] = e]
  <2>1. a # Null
    BY Zenon, AddrsAssumption
  <2>2. e = IF a = Null THEN Fault ELSE [l.mem[a] EXCEPT !.prev = p]
    BY Zenon, <2>1, <1>1
  <2> QED BY <2>2 DEF SetPrev, Write
<1>3. /\ r \in Lists /\ r.head = l.head /\ r.tail = l.tail
      /\ r.mem = [l.mem EXCEPT ![a] = e]
  BY <1>2 DEF Lists, Pointers
<1>4. l.mem \in [Pointers -> Entry] /\ a \in Pointers /\ a # Null
  BY AddrsAssumption DEF Lists, Pointers
<1>5. /\ KeyOf(r) = KeyOf(l) /\ NextOf(r) = NextOf(l)
      /\ PrevOf(r) = [PrevOf(l) EXCEPT ![a] = p]
  BY Zenon, <1>1, <1>3, <1>4 DEF NextOf, PrevOf, KeyOf
<1>6. Null \in Pointers
  BY Zenon DEF Pointers
<1> QED BY <1>3, <1>4, <1>5, <1>6 DEF PrevSet

\* Setting the head or the tail leaves the entries alone.
LEMMA EndFields ==
    ASSUME NEW l \in Lists, NEW h \in Pointers, NEW t \in Pointers, NEW r,
           \/ r = [l EXCEPT !.head = h] /\ t = l.tail
           \/ r = [l EXCEPT !.tail = t] /\ h = l.head
           \/ r = [l EXCEPT !.head = h, !.tail = t]
    PROVE  EndsSet(l, r, h, t)
<1>1. r \in Lists /\ r.head = h /\ r.tail = t /\ r.mem = l.mem
  BY Zenon DEF Lists
<1> QED BY Zenon, <1>1 DEF EndsSet, NextOf, PrevOf, KeyOf

\* The links of a list.
LEMMA LinksOf ==
    ASSUME NEW l \in Lists
    PROVE  /\ NextOf(l) \in Links /\ PrevOf(l) \in Links
           /\ l.head \in Pointers /\ l.tail \in Pointers
           /\ \A a \in Pointers : /\ NextOf(l)[a] = l.mem[a].next
                                  /\ PrevOf(l)[a] = l.mem[a].prev
                                  /\ KeyOf(l)[a] = l.mem[a].key
<1>1. /\ l.mem \in [Pointers -> Entry] /\ l.head \in Pointers
      /\ l.tail \in Pointers
  BY DEF Lists
<1>2. \A a \in Pointers :
         l.mem[a].next \in Pointers /\ l.mem[a].prev \in Pointers
  BY <1>1 DEF Entry
<1> QED BY <1>1, <1>2 DEF NextOf, PrevOf, KeyOf, Links

----------------------------------------------------------------------------
(* The operations on the list *)

\* move_to_head keeps the list, and every entry its key.
LEMMA MoveOk ==
    ASSUME NEW l, NEW e \in Live, ListOk(l, Live)
    PROVE  /\ ListOk(move_to_head(l, e), Live)
           /\ KeyOf(move_to_head(l, e)) = KeyOf(l)
<1>1. CASE e = l.head
  BY Zenon, <1>1 DEF move_to_head
<1>2. CASE e # l.head
  <2>1. PICK nx \in Links, pv \in Links, h \in Pointers, t \in Pointers :
           /\ nx = NextOf(l) /\ pv = PrevOf(l) /\ h = l.head /\ t = l.tail
           /\ Chain(nx, pv, h, t, Live)
    BY Zenon, LinksOf DEF ListOk
  <2>2. PICK p, n : p = pv[e] /\ n = nx[e]
    BY Zenon
  <2>3. p \in Live \ {e} /\ nx[p] = e
    BY <2>1, <2>2, <1>2, HasPrevious
  <2>4. h \in Live /\ Null \notin Live /\ Live \subseteq Addrs
    <3>1. h \in Live /\ Null \notin Live
      BY <2>1, LinkedEnds
    <3> QED BY Zenon, <3>1, <2>1 DEF Chain
  <2>5. /\ n \in Pointers /\ p \in Addrs /\ h \in Addrs /\ e \in Addrs
        /\ Null \in Pointers /\ \A a \in Addrs : a \in Pointers
    BY Zenon, <2>1, <2>2, <2>3, <2>4 DEF Pointers, Chain
  <2>6. p = lock(l.mem[e].prev) /\ n = l.mem[e].next
    BY Zenon, <2>1, <2>2, <2>3, <2>5, LinksOf DEF lock, ListOk
  <2>7. PICK l1 : l1 = SetNext(l, p, n) /\ NextSet(l, l1, p, n)
    BY Zenon, <2>5, SetNextFields DEF ListOk
  <2>8. PICK l2 : /\ l2 = IF n # Null THEN SetPrev(l1, n, p)
                                      ELSE [l1 EXCEPT !.tail = p]
                  /\ l2 = Unlinked(l, e)
    BY Zenon, <2>6, <2>7 DEF Unlinked
  <2>9. l1 \in Lists /\ p \in Pointers
    BY Zenon, <2>5, <2>7 DEF NextSet
  <2>10. /\ l2 \in Lists /\ l2.head = h
         /\ l2.tail = IF n = Null THEN p ELSE t
         /\ l2.mem[Null] = Blank /\ KeyOf(l2) = KeyOf(l)
         /\ NextOf(l2) = [nx EXCEPT ![p] = n]
         /\ PrevOf(l2) = IF n = Null THEN pv ELSE [pv EXCEPT ![n] = p]
    <3>1. CASE n = Null
      <4>1. EndsSet(l1, l2, h, p)
        <5>1. l2 = [l1 EXCEPT !.tail = p] /\ h = l1.head
          BY Zenon, <3>1, <2>1, <2>7, <2>8 DEF NextSet
        <5> QED BY Zenon, <5>1, <2>9, EndFields
      <4> QED BY Zenon, <4>1, <3>1, <2>1, <2>7 DEF NextSet, EndsSet, ListOk
    <3>2. CASE n # Null
      <4>1. PrevSet(l1, l2, n, p)
        <5>1. l2 = SetPrev(l1, n, p) /\ n \in Addrs
          BY Zenon, <3>2, <2>5, <2>8 DEF Pointers
        <5> QED BY Zenon, <5>1, <2>9, SetPrevFields
      <4> QED BY Zenon, <4>1, <3>2, <2>1, <2>7 DEF NextSet, PrevSet, ListOk
    <3> QED BY Zenon, <3>1, <3>2
  <2>11. PICK l3 : l3 = SetNext(l2, e, h) /\ NextSet(l2, l3, e, h)
    BY Zenon, <2>5, <2>10, SetNextFields
  <2>12. l3 \in Lists
    BY Zenon, <2>11 DEF NextSet
  <2>13. PICK l4 : l4 = SetPrev(l3, e, Null) /\ PrevSet(l3, l4, e, Null)
    BY Zenon, <2>5, <2>12, SetPrevFields
  <2>14. l4 \in Lists /\ e \in Pointers
    BY Zenon, <2>5, <2>13 DEF PrevSet
  <2>15. PICK l5 : l5 = SetPrev(l4, h, e) /\ PrevSet(l4, l5, h, e)
    BY Zenon, <2>5, <2>14, SetPrevFields
  <2>16. /\ l5 \in Lists /\ l5.tail = l2.tail /\ l5.tail \in Pointers
         /\ l5.mem[Null] = Blank /\ KeyOf(l5) = KeyOf(l)
         /\ NextOf(l5) = [[nx EXCEPT ![p] = n] EXCEPT ![e] = h]
         /\ PrevOf(l5) = [[PrevOf(l2) EXCEPT ![e] = Null] EXCEPT ![h] = e]
    BY ZenonT(30), <2>10, <2>11, <2>13, <2>15, LinksOf DEF NextSet, PrevSet
  <2>17. PICK r : r = [l5 EXCEPT !.head = e] /\ r = move_to_head(l, e)
    BY Zenon, <1>2, <2>1, <2>8, <2>11, <2>13, <2>15 DEF move_to_head
  <2>18. EndsSet(l5, r, e, l5.tail)
    BY Zenon, <2>14, <2>16, <2>17, EndFields
  <2>19. PICK nx2, pv2, t2 : nx2 = NextOf(r) /\ pv2 = PrevOf(r) /\ t2 = r.tail
    BY Zenon
  <2>20. \A a \in Live : nx2[a] = IF a = e THEN h
                                  ELSE IF a = pv[e] THEN nx[e] ELSE nx[a]
    <3>1. nx2 = [[nx EXCEPT ![p] = n] EXCEPT ![e] = h]
      BY Zenon, <2>16, <2>18, <2>19 DEF EndsSet
    <3> QED BY <3>1, <2>1, <2>2, <2>4, <2>5 DEF Links
  <2>21. \A a \in Live : pv2[a] = IF a = h THEN e ELSE IF a = e THEN Null
                                  ELSE IF a = nx[e] THEN pv[e] ELSE pv[a]
    <3>1. pv2 = [[PrevOf(l2) EXCEPT ![e] = Null] EXCEPT ![h] = e]
      BY Zenon, <2>16, <2>18, <2>19 DEF EndsSet
    <3>2. CASE n = Null
      <4>1. pv2 = [[pv EXCEPT ![e] = Null] EXCEPT ![h] = e]
        BY Zenon, <3>1, <3>2, <2>10
      <4> QED BY <4>1, <3>2, <2>1, <2>2, <2>4, <2>5 DEF Links
    <3>3. CASE n # Null
      <4>1. pv2 = [[[pv EXCEPT ![n] = p] EXCEPT ![e] = Null] EXCEPT ![h] = e]
        BY Zenon, <3>1, <3>3, <2>10
      <4> QED BY <4>1, <2>1, <2>2, <2>4, <2>5 DEF Links
    <3> QED BY Zenon, <3>2, <3>3
  <2>22. t2 = IF nx[e] = Null THEN pv[e] ELSE t
    BY Zenon, <2>2, <2>10, <2>16, <2>18, <2>19 DEF EndsSet
  <2>23. Chain(nx2, pv2, e, t2, Live)
    BY <2>1, <1>2, <2>20, <2>21, <2>22, ChainMove
  <2> QED BY Zenon, <2>16, <2>17, <2>18, <2>19, <2>23 DEF ListOk, EndsSet
<1> QED BY Zenon, <1>1, <1>2

\* insert_new_entry links one more entry, with its key, and keeps the others'.
LEMMA InsertOk ==
    ASSUME NEW l, NEW E, ListOk(l, E), NEW e \in Addrs \ E, NEW k \in Keys
    PROVE  /\ ListOk(insert_new_entry(l, e, k), E \cup {e})
           /\ KeyOf(insert_new_entry(l, e, k)) = [KeyOf(l) EXCEPT ![e] = k]
<1>1. PICK nx \in Links, pv \in Links, h \in Pointers, t \in Pointers :
         /\ nx = NextOf(l) /\ pv = PrevOf(l) /\ h = l.head /\ t = l.tail
         /\ Chain(nx, pv, h, t, E)
  BY Zenon, LinksOf DEF ListOk
<1>2. /\ e \in Pointers /\ e # Null /\ e \in Addrs /\ Null \in Pointers
      /\ e \notin E
      /\ E \subseteq Pointers /\ h \in E \cup {Null} /\ E \subseteq Addrs
  BY Zenon, <1>1, AddrsAssumption DEF Pointers, Chain
<1>3. PICK f \in Entry : /\ f = [key |-> k, next |-> h, prev |-> Null]
                         /\ f.key = k /\ f.next = h /\ f.prev = Null
  <2>1. PICK f : f = [key |-> k, next |-> h, prev |-> Null]
    BY Zenon
  <2>2. f \in Entry
    BY <2>1, <1>2 DEF Entry
  <2> QED BY <2>1, <2>2
<1>4. PICK l1 : l1 = [l EXCEPT !.mem[e] = f] /\ l1 = Write(l, e, f)
  <2>1. f = IF e = Null THEN Fault ELSE f
    BY Zenon, <1>2
  <2> QED BY Zenon, <2>1 DEF Write
<1>5. /\ l \in Lists /\ l.mem \in [Pointers -> Entry] /\ l.mem[Null] = Blank
  BY DEF ListOk, Lists
<1>6. /\ l1 \in Lists /\ l1.head = h /\ l1.tail = t
      /\ l1.mem = [l.mem EXCEPT ![e] = f]
  BY <1>1, <1>2, <1>4, <1>5 DEF Lists
<1>7. /\ KeyOf(l1) = [KeyOf(l) EXCEPT ![e] = k]
      /\ NextOf(l1) = [nx EXCEPT ![e] = h]
      /\ PrevOf(l1) = [pv EXCEPT ![e] = Null] /\ l1.mem[Null] = Blank
  <2>1. KeyOf(l1) = [KeyOf(l) EXCEPT ![e] = k]
    BY Zenon, <1>2, <1>3, <1>5, <1>6 DEF KeyOf
  <2>4. l1.mem[Null] = Blank
    BY <1>2, <1>5, <1>6
  <2>2. NextOf(l1) = [NextOf(l) EXCEPT ![e] = h]
    BY Zenon, <1>2, <1>3, <1>5, <1>6 DEF NextOf
  <2>3. PrevOf(l1) = [PrevOf(l) EXCEPT ![e] = Null]
    BY Zenon, <1>2, <1>3, <1>5, <1>6 DEF PrevOf
  <2> QED BY Zenon, <2>1, <2>2, <2>3, <2>4, <1>1
<1>8. PICK r : r = insert_new_entry(l, e, k)
  BY Zenon
<1>9. /\ r \in Lists /\ r.head = e /\ r.mem[Null] = Blank
      /\ r.tail = IF h = Null THEN e ELSE t
      /\ KeyOf(r) = [KeyOf(l) EXCEPT ![e] = k]
      /\ NextOf(r) = [nx EXCEPT ![e] = h]
      /\ PrevOf(r) = IF h = Null THEN [pv EXCEPT ![e] = Null]
                     ELSE [[pv EXCEPT ![e] = Null] EXCEPT ![h] = e]
  <2>1. CASE h = Null
    <3>1. r = [l1 EXCEPT !.head = e, !.tail = e]
      BY Zenon, <2>1, <1>1, <1>3, <1>4, <1>8 DEF insert_new_entry
    <3>2. EndsSet(l1, r, e, e)
      BY Zenon, <3>1, <1>2, <1>6, EndFields
    <3> QED BY Zenon, <3>2, <2>1, <1>7 DEF EndsSet
  <2>2. CASE h # Null
    <3>1. PICK l2 : l2 = SetPrev(l1, h, e) /\ r = [l2 EXCEPT !.head = e]
      BY Zenon, <2>2, <1>1, <1>3, <1>4, <1>8 DEF insert_new_entry
    <3>2. h \in Addrs
      BY Zenon, <2>2, <1>2
    <3>3. PrevSet(l1, l2, h, e)
      BY Zenon, <3>1, <3>2, <1>2, <1>6, SetPrevFields
    <3>4. l2 \in Lists /\ l2.tail = t /\ l2.tail \in Pointers
      BY Zenon, <3>3, <1>1, <1>6 DEF PrevSet
    <3>5. EndsSet(l2, r, e, l2.tail)
      BY Zenon, <3>1, <3>4, <1>2, EndFields
    <3> QED BY Zenon, <3>3, <3>4, <3>5, <2>2, <1>7 DEF PrevSet, EndsSet
  <2> QED BY Zenon, <2>1, <2>2
<1>10. PICK nx2, pv2, t2 : nx2 = NextOf(r) /\ pv2 = PrevOf(r) /\ t2 = r.tail
  BY Zenon
<1>11. (\A a \in E : nx2[a] = nx[a]) /\ nx2[e] = h
  BY <1>1, <1>2, <1>9, <1>10 DEF Links
<1>12. (\A a \in E : pv2[a] = IF a = h THEN e ELSE pv[a]) /\ pv2[e] = Null
  <2>1. CASE h = Null
    <3>1. pv2 = [pv EXCEPT ![e] = Null] /\ Null \notin E
      BY Zenon, <2>1, <1>2, <1>9, <1>10, AddrsAssumption
    <3> QED BY <3>1, <2>1, <1>1, <1>2 DEF Links
  <2>2. CASE h # Null
    <3>1. pv2 = [[pv EXCEPT ![e] = Null] EXCEPT ![h] = e] /\ h \in E
      BY Zenon, <2>2, <1>2, <1>9, <1>10
    <3> QED BY <3>1, <2>2, <1>1, <1>2 DEF Links
  <2> QED BY Zenon, <2>1, <2>2
<1>13. t2 = IF h = Null THEN e ELSE t
  BY Zenon, <1>9, <1>10
<1>14. Chain(nx2, pv2, e, t2, E \cup {e})
  <2>1. Inserted(nx, pv, h, t, E, e, nx2, pv2, t2)
    BY Zenon, <1>2, <1>11, <1>12, <1>13 DEF Inserted
  <2> QED BY Zenon, <2>1, <1>1, ChainInsert
<1> QED BY Zenon, <1>8, <1>9, <1>10, <1>14 DEF ListOk

\* evict_entry unlinks the entry; the others keep their keys.
LEMMA EvictOk ==
    ASSUME NEW l, NEW e \in Live, ListOk(l, Live)
    PROVE  /\ ListOk(evict_entry(l, e), Live \ {e})
           /\ KeyOf(evict_entry(l, e)) = KeyOf(l)
<1>1. PICK nx \in Links, pv \in Links, h \in Pointers, t \in Pointers :
         /\ nx = NextOf(l) /\ pv = PrevOf(l) /\ h = l.head /\ t = l.tail
         /\ Chain(nx, pv, h, t, Live)
  BY Zenon, LinksOf DEF ListOk
<1>2. PICK p \in Pointers, n \in Pointers : p = pv[e] /\ n = nx[e]
  <2>1. e \in Pointers
    BY Zenon, <1>1 DEF Chain, Pointers
  <2> QED BY <2>1, <1>1 DEF Links
<1>3. /\ h \in Live /\ t \in Live /\ Null \notin Live /\ Live \subseteq Addrs
  <2>1. h \in Live /\ t \in Live /\ Null \notin Live
    BY <1>1, LinkedEnds
  <2> QED BY Zenon, <2>1, <1>1 DEF Chain
<1>4. /\ IF e = h THEN p = Null ELSE p \in Live /\ p \in Addrs
      /\ IF e = t THEN n = Null ELSE n \in Live /\ n \in Addrs
      /\ Null \in Pointers
  <2>1. e # h => p \in Live
    BY <1>1, <1>2, HasPrevious
  <2>2. e = h => p = Null
    BY Zenon, <1>1, <1>2, <1>3 DEF Chain
  <2>3. (e = t => n = Null) /\ (e # t => n \in Live)
    BY Zenon, <1>1, <1>2, <1>3 DEF Chain
  <2> QED BY Zenon, <2>1, <2>2, <2>3, <1>3 DEF Pointers
<1>5. l.mem[e].next = n /\ lock(l.mem[e].prev) = p
  <2>1. l.mem[e].prev = p /\ l.mem[e].next = n
    BY Zenon, <1>1, <1>2, <1>3, LinksOf DEF ListOk, Pointers
  <2> QED BY Zenon, <2>1, <1>4 DEF lock
<1>6. l \in Lists /\ l.mem[Null] = Blank
  BY Zenon DEF ListOk
<1>7. PICK r : r = evict_entry(l, e)
  BY Zenon
<1>8. /\ r \in Lists /\ r.mem[Null] = Blank /\ KeyOf(r) = KeyOf(l)
      /\ r.head = IF e = h THEN n ELSE h
      /\ r.tail = IF e = t THEN p ELSE t
      /\ NextOf(r) = IF p = Null THEN nx ELSE [nx EXCEPT ![p] = n]
      /\ PrevOf(r) = IF n = Null THEN pv ELSE [pv EXCEPT ![n] = p]
  <2>1. CASE e = t /\ e = h
    <3>1. r = [l EXCEPT !.head = Null, !.tail = Null]
      BY Zenon, <2>1, <1>1, <1>7 DEF evict_entry
    <3>2. EndsSet(l, r, Null, Null)
      BY Zenon, <3>1, <1>4, <1>6, EndFields
    <3> QED BY Zenon, <3>2, <2>1, <1>1, <1>4, <1>6 DEF EndsSet
  <2>2. CASE e = t /\ e # h
    <3>1. PICK l1 : l1 = SetNext(l, p, Null) /\ r = [l1 EXCEPT !.tail = p]
      BY Zenon, <2>2, <1>1, <1>5, <1>7 DEF evict_entry
    <3>2. p \in Addrs /\ n = Null /\ p # Null
      BY Zenon, <2>2, <1>3, <1>4
    <3>3. NextSet(l, l1, p, Null)
      BY Zenon, <3>1, <3>2, <1>4, <1>6, SetNextFields
    <3>4. l1 \in Lists /\ l1.head = h /\ h = l1.head
      BY Zenon, <3>3, <1>1 DEF NextSet
    <3>5. EndsSet(l1, r, h, p)
      BY Zenon, <3>1, <3>4, EndFields
    <3> QED BY Zenon, <3>2, <3>3, <3>5, <2>2, <1>1, <1>6 DEF NextSet, EndsSet
  <2>3. CASE e # t /\ e = h
    <3>1. PICK l1 : l1 = SetPrev(l, n, Null) /\ r = [l1 EXCEPT !.head = n]
      BY Zenon, <2>3, <1>1, <1>5, <1>7 DEF evict_entry
    <3>2. n \in Addrs /\ p = Null /\ n # Null
      BY Zenon, <2>3, <1>3, <1>4
    <3>3. PrevSet(l, l1, n, Null)
      BY Zenon, <3>1, <3>2, <1>4, <1>6, SetPrevFields
    <3>4. l1 \in Lists /\ l1.tail = t /\ t = l1.tail
      BY Zenon, <3>3, <1>1 DEF PrevSet
    <3>5. EndsSet(l1, r, n, t)
      BY Zenon, <3>1, <3>4, EndFields
    <3> QED BY Zenon, <3>2, <3>3, <3>5, <2>3, <1>1, <1>6 DEF PrevSet, EndsSet
  <2>4. CASE e # t /\ e # h
    <3>1. PICK l1 : l1 = SetNext(l, p, n) /\ r = SetPrev(l1, n, p)
      BY <2>4, <1>1, <1>5, <1>7 DEF evict_entry
    <3>2. n \in Addrs /\ p \in Addrs /\ n # Null /\ p # Null
      BY Zenon, <2>4, <1>3, <1>4
    <3>3. NextSet(l, l1, p, n)
      BY Zenon, <3>1, <3>2, <1>6, SetNextFields
    <3>4. l1 \in Lists
      BY Zenon, <3>3 DEF NextSet
    <3>5. PrevSet(l1, r, n, p)
      BY Zenon, <3>1, <3>2, <3>4, SetPrevFields
    <3> QED BY Zenon, <3>2, <3>3, <3>5, <2>4, <1>1, <1>6 DEF NextSet, PrevSet
  <2> QED BY Zenon, <2>1, <2>2, <2>3, <2>4
<1>9. PICK nx2, pv2, h2, t2 : /\ nx2 = NextOf(r) /\ pv2 = PrevOf(r)
                              /\ h2 = r.head /\ t2 = r.tail
  BY Zenon
<1>10. \A a \in Live : nx2[a] = IF a = pv[e] THEN nx[e] ELSE nx[a]
  <2>1. Live \subseteq Pointers
    BY Zenon, <1>3 DEF Pointers
  <2>2. CASE p = Null
    BY Zenon, <2>2, <1>2, <1>3, <1>8, <1>9
  <2>3. CASE p # Null
    <3>1. nx2 = [nx EXCEPT ![p] = n]
      BY Zenon, <2>3, <1>8, <1>9
    <3> QED BY <3>1, <2>1, <1>1, <1>2 DEF Links
  <2> QED BY Zenon, <2>2, <2>3
<1>11. \A a \in Live : pv2[a] = IF a = nx[e] THEN pv[e] ELSE pv[a]
  <2>1. Live \subseteq Pointers
    BY Zenon, <1>3 DEF Pointers
  <2>2. CASE n = Null
    BY Zenon, <2>2, <1>2, <1>3, <1>8, <1>9
  <2>3. CASE n # Null
    <3>1. pv2 = [pv EXCEPT ![n] = p]
      BY Zenon, <2>3, <1>8, <1>9
    <3> QED BY <3>1, <2>1, <1>1, <1>2 DEF Links
  <2> QED BY Zenon, <2>2, <2>3
<1>12. /\ h2 = IF e = h THEN nx[e] ELSE h
       /\ t2 = IF e = t THEN pv[e] ELSE t
  BY Zenon, <1>2, <1>8, <1>9
<1>13. Chain(nx2, pv2, h2, t2, Live \ {e})
  <2>1. Evicted(nx, pv, h, t, Live, e, nx2, pv2, h2, t2)
    BY Zenon, <1>1, <1>10, <1>11, <1>12 DEF Evicted
  <2> QED BY Zenon, <1>1, <2>1, ChainEvict
<1> QED BY Zenon, <1>7, <1>8, <1>9, <1>13 DEF ListOk

----------------------------------------------------------------------------
(* Owners *)

\* When the map's entries are the linked ones, nothing else has an owner.
LEMMA OwnedEntries ==
    ASSUME NEW map, NEW l, ListOk(l, Entries(map))
    PROVE  Owned(map, l) = Entries(map)
<1>1. PICK E, roots : /\ E = Entries(map)
                      /\ roots = E \cup {l.head, l.tail}
  BY Zenon
<1>2. Owned(map, l) = Closure(l.mem, roots)
  BY Zenon, <1>1 DEF Owned, Entries
<1>3. Chain(NextOf(l), PrevOf(l), l.head, l.tail, E) /\ l \in Lists
  BY Zenon, <1>1 DEF ListOk
<1>4. E \in SUBSET Addrs /\ Null \notin E
  BY Zenon, <1>3, AddrsAssumption DEF Chain
<1>5. Closed(l.mem, roots, E)
  <2>1. roots \ {Null} \subseteq E
    <3>1. l.head \in E \cup {Null} /\ l.tail \in E \cup {Null}
      BY Zenon, <1>3 DEF Chain
    <3> QED BY <3>1, <1>1
  <2>2. ASSUME NEW a \in E PROVE l.mem[a].next \in E \cup {Null}
    <3>1. NextOf(l)[a] = l.mem[a].next
      BY Zenon, <1>3, <1>4, LinksOf DEF Pointers
    <3> QED BY Zenon, <3>1, <1>3 DEF Chain
  <2> QED BY Zenon, <2>1, <2>2 DEF Closed
<1>6. ASSUME NEW S \in SUBSET Addrs, Closed(l.mem, roots, S) PROVE E \subseteq S
  BY Zenon, <1>1, <1>4, <1>6 DEF Closed
<1>7. Closure(l.mem, roots) = E
  BY Zenon, <1>4, <1>5, <1>6 DEF Closure
<1> QED BY Zenon, <1>1, <1>2, <1>7

\* Everything alive in a state of the invariant is an entry of the map.
LEMMA LiveEntries == ASSUME Inv PROVE Live = Entries(map_impl)
BY Zenon, OwnedEntries DEF Live, Inv

\* Weak pointers to what is gone read as null: a chain keeps none.
LEMMA ChainRelease ==
    ASSUME NEW nx, NEW pv, NEW h, NEW t, NEW E, Chain(nx, pv, h, t, E),
           NEW nx2, NEW pv2,
           \A a \in E : nx2[a] = nx[a],
           \A a \in E : pv2[a] = IF pv[a] \in E THEN pv[a] ELSE Null
    PROVE  Chain(nx2, pv2, h, t, E)
<1>1. E \subseteq Addrs /\ Null \notin E
  BY Zenon, AddrsAssumption DEF Chain
<1>2. ASSUME NEW a \in E
      PROVE  /\ nx2[a] \in E \cup {Null} /\ (nx2[a] = Null => a = t)
             /\ nx2[a] # Null => pv2[nx2[a]] = a
  <2>1. PICK y : y = nx[a] /\ y = nx2[a]
    BY Zenon
  <2>2. y \in E \cup {Null} /\ (y # Null => pv[y] = a) /\ (y = Null => a = t)
    BY Zenon, <2>1 DEF Chain
  <2> QED BY Zenon, <2>1, <2>2
<1>3. ASSUME NEW S \in SUBSET E, Follows(nx2, h, S) PROVE S = E
  <2>1. Follows(nx, h, S)
    BY Zenon, <1>3 DEF Follows
  <2> QED BY Zenon, <2>1 DEF Chain
<1>4. /\ h \in E \cup {Null} /\ t \in E \cup {Null}
      /\ h # Null => pv2[h] = Null /\ t # Null
      /\ t # Null => nx2[t] = Null /\ h # Null
  BY Zenon, <1>1 DEF Chain
<1> QED BY Zenon, <1>1, <1>2, <1>3, <1>4 DEF Chain

\* The list once an operation is over.
After(map, l) ==
    [mem |-> Released(map, l), head |-> l.head, tail |-> l.tail]

\* What the end of an operation destroys is not part of the list.
LEMMA ReleaseOk ==
    ASSUME NEW map, NEW l, ListOk(l, Entries(map))
    PROVE  /\ ListOk(After(map, l), Entries(map))
           /\ \A a \in Entries(map) : KeyOf(After(map, l))[a] = KeyOf(l)[a]
<1>1. PICK E, m, r : E = Entries(map) /\ m = l.mem /\ r = After(map, l)
  BY Zenon
<1>2. /\ l \in Lists /\ m \in [Pointers -> Entry] /\ m[Null] = Blank
      /\ l.head \in Pointers /\ l.tail \in Pointers
      /\ Chain(NextOf(l), PrevOf(l), l.head, l.tail, E)
  BY <1>1 DEF ListOk, Lists
<1>3. /\ E \subseteq Addrs /\ Null \notin E /\ Null \in Pointers
      /\ E \subseteq Pointers
  BY Zenon, <1>2, AddrsAssumption DEF Chain, Pointers
<1>4. PICK q : /\ q = Released(map, l)
               /\ q = [a \in Pointers |->
                         IF a \notin E /\ a # Null THEN Blank
                         ELSE [m[a] EXCEPT !.prev = IF @ \in E THEN @
                                                    ELSE Null]]
  BY Zenon, <1>1, OwnedEntries DEF Released
<1>5. ASSUME NEW a \in E
      PROVE  /\ q[a] \in Entry /\ q[a].key = m[a].key /\ q[a].next = m[a].next
             /\ q[a].prev = IF m[a].prev \in E THEN m[a].prev ELSE Null
  <2>1. m[a] \in Entry
    BY <1>2, <1>3
  <2>2. q[a] = [m[a] EXCEPT !.prev = IF @ \in E THEN @ ELSE Null]
    BY Zenon, <1>3, <1>4
  <2> QED BY <2>1, <2>2, <1>3 DEF Entry
<1>6. Blank \in Entry
  BY <1>3 DEF Blank, Entry
<1>7. q[Null] = Blank
  BY <1>2, <1>3, <1>4 DEF Blank
<1>8. q \in [Pointers -> Entry]
  <2>1. ASSUME NEW a \in Pointers PROVE q[a] \in Entry
    <3>1. a \notin E /\ a # Null => q[a] = Blank
      BY Zenon, <1>4
    <3> QED BY Zenon, <3>1, <1>5, <1>6, <1>7
  <2>2. q = [a \in Pointers |-> q[a]]
    BY <1>4
  <2> QED BY Zenon, <2>1, <2>2
<1>9. /\ r \in Lists /\ r.mem = q /\ r.head = l.head /\ r.tail = l.tail
  BY <1>1, <1>2, <1>4, <1>8 DEF Lists, After
<1>10. ASSUME NEW a \in E
       PROVE  /\ NextOf(r)[a] = NextOf(l)[a] /\ KeyOf(r)[a] = KeyOf(l)[a]
              /\ PrevOf(r)[a] = IF PrevOf(l)[a] \in E THEN PrevOf(l)[a]
                                ELSE Null
  <2>1. /\ NextOf(r)[a] = q[a].next /\ KeyOf(r)[a] = q[a].key
        /\ PrevOf(r)[a] = q[a].prev
    BY Zenon, <1>3, <1>9, LinksOf
  <2>2. /\ NextOf(l)[a] = m[a].next /\ KeyOf(l)[a] = m[a].key
        /\ PrevOf(l)[a] = m[a].prev
    BY Zenon, <1>1, <1>2, <1>3, LinksOf
  <2> QED BY Zenon, <2>1, <2>2, <1>5
<1>11. Chain(NextOf(r), PrevOf(r), r.head, r.tail, E)
  <2>1. Chain(NextOf(r), PrevOf(r), l.head, l.tail, E)
    BY <1>2, <1>10, ChainRelease
  <2> QED BY Zenon, <2>1, <1>9
<1> QED BY Zenon, <1>1, <1>7, <1>9, <1>10, <1>11 DEF ListOk

\* An operation that ends with a sound list and map leaves both in the state.
LEMMA FinishOk ==
    ASSUME NEW l, NEW map, NEW result \in Results, MapOk(map),
           ListOk(l, Entries(map)), KeysOk(map, l), Finish(l, map, result)
    PROVE  Inv'
<1>1. /\ map_impl' = map /\ ret' = result /\ max_entries' = max_entries
      /\ List' = After(map, l)
  BY Zenon DEF Finish, List, After
<1>2. PICK r : /\ r = After(map, l) /\ ListOk(r, Entries(map))
               /\ \A a \in Entries(map) : KeyOf(r)[a] = KeyOf(l)[a]
  <2>1. /\ ListOk(After(map, l), Entries(map))
        /\ \A a \in Entries(map) : KeyOf(After(map, l))[a] = KeyOf(l)[a]
    BY Zenon, ReleaseOk
  <2> QED BY Zenon, <2>1
<1>3. KeysOk(map, r)
  BY Zenon, <1>2 DEF KeysOk, Entries
<1>4. MapOk(map_impl)' /\ (ret \in Results)'
  BY Zenon, <1>1 DEF MapOk, Results
<1>5. ListOk(List, Entries(map_impl))'
  BY Zenon, <1>1, <1>2
<1>6. KeysOk(map_impl, List)'
  BY Zenon, <1>1, <1>2, <1>3
<1> QED BY Zenon, <1>4, <1>5, <1>6 DEF Inv

----------------------------------------------------------------------------
(* The map *)

\* Two keys of the map never share an entry.
LEMMA EntryOfKey ==
    ASSUME NEW map, NEW l, KeysOk(map, l), NEW j \in DOMAIN map,
           NEW k \in DOMAIN map, map[j].entry = map[k].entry
    PROVE  j = k
BY Zenon DEF KeysOk

\* A key's entry is linked.
LEMMA EntryIsLinked ==
    ASSUME NEW map, NEW k \in DOMAIN map
    PROVE  map[k].entry \in Entries(map)
BY Zenon DEF Entries

\* Erasing a key takes its entry, and no other, from the map.
LEMMA EraseOk ==
    ASSUME NEW map, NEW l, MapOk(map), KeysOk(map, l), NEW k \in DOMAIN map
    PROVE  /\ MapOk(Erased(map, k)) /\ KeysOk(Erased(map, k), l)
           /\ Entries(Erased(map, k)) = Entries(map) \ {map[k].entry}
           /\ Cardinality(DOMAIN Erased(map, k)) < max_entries
           /\ DOMAIN Erased(map, k) = DOMAIN map \ {k}
<1>1. PICK m, D : /\ D = DOMAIN map \ {k} /\ m = [x \in D |-> map[x]]
                  /\ m = Erased(map, k)
  BY Zenon DEF Erased
<1>2. DOMAIN m = D /\ \A x \in D : x \in DOMAIN map /\ x # k /\ m[x] = map[x]
  BY Zenon, <1>1
<1>3. /\ DOMAIN map \subseteq Keys /\ IsFiniteSet(DOMAIN map)
      /\ map \in [DOMAIN map -> [value : Values, entry : Addrs]]
      /\ Cardinality(DOMAIN map) <= max_entries
      /\ max_entries \in 0..MaxEntries
  BY Zenon DEF MapOk
<1>4. /\ IsFiniteSet(D) /\ Cardinality(D) = Cardinality(DOMAIN map) - 1
  BY Zenon, <1>1, <1>3, FS_RemoveElement
<1>5. Cardinality(DOMAIN map) \in Nat
  BY Zenon, <1>3, FS_CardinalityType
<1>6. Cardinality(D) <= max_entries /\ Cardinality(D) < max_entries
  BY <1>3, <1>4, <1>5, MaxEntriesAssumption
<1>7. m \in [D -> [value : Values, entry : Addrs]] /\ D \subseteq Keys
  BY <1>1, <1>2, <1>3
<1>8. Entries(m) = Entries(map) \ {map[k].entry}
  <2>1. ASSUME NEW x \in D PROVE map[x].entry # map[k].entry
    BY Zenon, <1>2, EntryOfKey
  <2>2. ASSUME NEW a \in Entries(m) PROVE a \in Entries(map) \ {map[k].entry}
    BY Zenon, <2>1, <2>2, <1>2 DEF Entries
  <2>3. ASSUME NEW a \in Entries(map) \ {map[k].entry} PROVE a \in Entries(m)
    BY Zenon, <2>3, <1>1, <1>2 DEF Entries
  <2> QED BY Zenon, <2>2, <2>3
<1>9. KeysOk(m, l)
  BY Zenon, <1>2 DEF KeysOk
<1>10. MapOk(m)
  BY Zenon, <1>2, <1>4, <1>6, <1>7 DEF MapOk
<1> QED BY Zenon, <1>1, <1>2, <1>6, <1>8, <1>9, <1>10

\* A failed call changes only what it returns.
LEMMA FailOk ==
    ASSUME Inv, NEW error \in {"ENOENT", "EEXIST", "EINVAL"}, Fail(error)
    PROVE  Inv'
<1>1. ret' \in Results
  BY DEF Fail, Results
<1>2. UNCHANGED <<max_entries, map_impl, mem, head, tail>> /\ List' = List
  BY Zenon DEF Fail, List
<1>3. PICK map, l : map = map_impl /\ l = List
  BY Zenon
<1>4. MapOk(map) /\ ListOk(l, Entries(map)) /\ KeysOk(map, l)
  BY Zenon, <1>3 DEF Inv
<1>5. map_impl' = map /\ List' = l
  BY Zenon, <1>2, <1>3
<1>6. MapOk(map_impl)'
  BY Zenon, <1>2, <1>4, <1>5 DEF MapOk
<1>7. ListOk(List, Entries(map_impl))' /\ KeysOk(map_impl, List)'
  BY Zenon, <1>4, <1>5
<1>8. (ret \in Results)'
  BY Zenon, <1>1 DEF Results
<1> QED BY Zenon, <1>6, <1>7, <1>8 DEF Inv

\* A lookup or an update of a key that is there.
LEMMA TouchOk ==
    ASSUME Inv, NEW k \in DOMAIN map_impl, NEW map, NEW result \in Results,
           DOMAIN map = DOMAIN map_impl,
           map \in [DOMAIN map -> [value : Values, entry : Addrs]],
           \A x \in DOMAIN map : map[x].entry = map_impl[x].entry,
           Finish(move_to_head(List, map_impl[k].entry), map, result)
    PROVE  Inv'
<1>1. PICK e, l : /\ e = map_impl[k].entry /\ e \in Live
                  /\ l = move_to_head(List, e)
  BY Zenon, LiveEntries, EntryIsLinked
<1>2. Entries(map) = Entries(map_impl)
  BY Zenon DEF Entries
<1>3. ListOk(List, Live)
  BY Zenon, LiveEntries DEF Inv
<1>4. ListOk(l, Live) /\ KeyOf(l) = KeyOf(List)
  BY Zenon, <1>1, <1>3, MoveOk
<1>5. ListOk(l, Entries(map))
  BY Zenon, <1>2, <1>4, LiveEntries
<1>6. KeysOk(map, l)
  BY Zenon, <1>4 DEF Inv, KeysOk
<1>7. MapOk(map)
  BY Zenon DEF Inv, MapOk
<1>8. Finish(l, map, result)
  BY Zenon, <1>1
<1> QED BY Zenon, <1>5, <1>6, <1>7, <1>8, FinishOk

\* elem_lookup keeps the invariant.
LEMMA LookupOk ==
    ASSUME Inv, NEW k \in Keys, elem_lookup(k)
    PROVE  Inv'
<1>1. CASE k \in DOMAIN map_impl
  <2>1. PICK map : map = map_impl
    BY Zenon
  <2>2. PICK v : v = map_impl[k].value
    BY Zenon
  <2>3. map \in [DOMAIN map -> [value : Values, entry : Addrs]]
    BY Zenon, <2>1 DEF Inv, MapOk
  <2>4. v \in Results
    BY <2>1, <2>2, <2>3, <1>1 DEF Results
  <2>5. Finish(move_to_head(List, map_impl[k].entry), map, v)
    BY Zenon, <1>1, <2>1, <2>2 DEF elem_lookup
  <2>6. /\ DOMAIN map = DOMAIN map_impl
        /\ \A x \in DOMAIN map : map[x].entry = map_impl[x].entry
    BY Zenon, <2>1
  <2> QED BY Zenon, <1>1, <2>3, <2>4, <2>5, <2>6, TouchOk
<1>2. CASE k \notin DOMAIN map_impl
  BY <1>2, FailOk DEF elem_lookup
<1> QED BY Zenon, <1>1, <1>2

\* elem_delete keeps the invariant.
LEMMA DeleteOk ==
    ASSUME Inv, NEW k \in Keys, elem_delete(k)
    PROVE  Inv'
<1>1. CASE k \in DOMAIN map_impl
  <2>1. PICK e, l, map : /\ e = map_impl[k].entry /\ e \in Live
                         /\ l = evict_entry(List, e)
                         /\ map = Erased(map_impl, k)
    BY Zenon, <1>1, LiveEntries, EntryIsLinked
  <2>2. ListOk(List, Live)
    BY Zenon, LiveEntries DEF Inv
  <2>3. ListOk(l, Live \ {e}) /\ KeyOf(l) = KeyOf(List)
    BY Zenon, <2>1, <2>2, EvictOk
  <2>4. MapOk(map_impl) /\ KeysOk(map_impl, List)
    BY Zenon DEF Inv
  <2>5. /\ MapOk(map) /\ KeysOk(map, List)
        /\ Entries(map) = Entries(map_impl) \ {e}
    BY Zenon, <1>1, <2>1, <2>4, EraseOk
  <2>6. ListOk(l, Entries(map))
    BY Zenon, <2>3, <2>5, LiveEntries
  <2>7. KeysOk(map, l)
    BY Zenon, <2>3, <2>5 DEF KeysOk
  <2>8. Finish(l, map, "ok") /\ "ok" \in Results
    BY Zenon, <1>1, <2>1 DEF elem_delete, Results
  <2> QED BY Zenon, <2>5, <2>6, <2>7, <2>8, FinishOk
<1>2. CASE k \notin DOMAIN map_impl
  BY <1>2, FailOk DEF elem_delete
<1> QED BY Zenon, <1>1, <1>2

\* The key of a full map's least recently used entry is in the map: evicting
\* it makes room for one more.
LEMMA RoomOk ==
    ASSUME Inv, ~(Full /\ tail = Null)
    PROVE  /\ MapOk(RoomMap) /\ KeysOk(RoomMap, RoomList)
           /\ ListOk(RoomList, Entries(RoomMap))
           /\ Cardinality(DOMAIN RoomMap) < max_entries
           /\ DOMAIN RoomMap \subseteq DOMAIN map_impl
<1>1. /\ MapOk(map_impl) /\ KeysOk(map_impl, List)
      /\ ListOk(List, Live) /\ Live = Entries(map_impl)
  BY Zenon, LiveEntries DEF Inv
<1>2. /\ Cardinality(DOMAIN map_impl) \in Nat /\ IsFiniteSet(DOMAIN map_impl)
      /\ Cardinality(DOMAIN map_impl) <= max_entries
      /\ max_entries \in 0..MaxEntries
  BY Zenon, <1>1, FS_CardinalityType DEF MapOk
<1>3. CASE Full
  <2>3. tail \in Live
    <3>1. Chain(NextOf(List), PrevOf(List), List.head, List.tail, Live)
      BY Zenon, <1>1 DEF ListOk
    <3>2. List.tail \in Live \cup {Null} /\ List.tail = tail
      BY Zenon, <3>1 DEF Chain, List
    <3> QED BY Zenon, <3>2, <1>3
  <2>4. PICK k \in DOMAIN map_impl : map_impl[k].entry = tail
    BY Zenon, <2>3, <1>1 DEF Entries
  <2>5. mem[tail].key = k
    <3>1. KeyOf(List)[tail] = k
      BY Zenon, <2>4, <1>1 DEF KeysOk
    <3>2. tail \in Pointers /\ List.mem = mem
      BY Zenon, <2>3, <1>1 DEF List, ListOk, Chain, Pointers
    <3>3. KeyOf(List)[tail] = List.mem[tail].key
      BY Zenon, <3>2 DEF KeyOf
    <3> QED BY Zenon, <3>1, <3>2, <3>3
  <2>6. RoomMap = Erased(map_impl, k) /\ RoomList = evict_entry(List, tail)
    BY Zenon, <1>3, <2>5 DEF RoomMap, RoomList
  <2>7. ListOk(RoomList, Live \ {tail}) /\ KeyOf(RoomList) = KeyOf(List)
    BY Zenon, <2>3, <2>6, <1>1, EvictOk
  <2>8. /\ MapOk(RoomMap) /\ KeysOk(RoomMap, List)
        /\ Entries(RoomMap) = Entries(map_impl) \ {tail}
        /\ Cardinality(DOMAIN RoomMap) < max_entries
        /\ DOMAIN RoomMap = DOMAIN map_impl \ {k}
    BY Zenon, <2>4, <2>6, <1>1, EraseOk
  <2>9. KeysOk(RoomMap, RoomList)
    BY Zenon, <2>7, <2>8 DEF KeysOk
  <2> QED BY Zenon, <2>7, <2>8, <2>9, <1>1
<1>4. CASE ~Full
  <2>1. RoomMap = map_impl /\ RoomList = List
    BY Zenon, <1>4 DEF RoomMap, RoomList
  <2>2. Cardinality(DOMAIN map_impl) < max_entries
    BY <1>2, <1>4, MaxEntriesAssumption DEF Full
  <2> QED BY Zenon, <2>1, <2>2, <1>1
<1> QED BY Zenon, <1>3, <1>4

\* The map with one more node.
Added(map, k, v, a) ==
    [x \in DOMAIN map \cup {k} |->
       IF x = k THEN [value |-> v, entry |-> a] ELSE map[x]]

\* Adding a key adds its entry.
LEMMA AddOk ==
    ASSUME NEW map, NEW l, MapOk(map), KeysOk(map, l), NEW k \in Keys,
           k \notin DOMAIN map, NEW v \in Values,
           NEW a \in Addrs, a \notin Entries(map), l \in Lists,
           Cardinality(DOMAIN map) < max_entries,
           NEW r, KeyOf(r) = [KeyOf(l) EXCEPT ![a] = k]
    PROVE  /\ MapOk(Added(map, k, v, a)) /\ KeysOk(Added(map, k, v, a), r)
           /\ Entries(Added(map, k, v, a)) = Entries(map) \cup {a}
<1>a. PICK D, n : D = DOMAIN map \cup {k} /\ n = [value |-> v, entry |-> a]
  BY Zenon
<1>b. PICK m : m = [x \in D |-> IF x = k THEN n ELSE map[x]]
  BY Zenon
<1>c. m = Added(map, k, v, a)
  BY <1>a, <1>b DEF Added
<1>1. /\ D = DOMAIN map \cup {k} /\ m = Added(map, k, v, a)
      /\ n = [value |-> v, entry |-> a]
      /\ m = [x \in D |-> IF x = k THEN n ELSE map[x]]
  BY Zenon, <1>a, <1>b, <1>c
<1>2. n \in [value : Values, entry : Addrs] /\ n.entry = a
  BY <1>1
<1>3. /\ DOMAIN m = D /\ m[k] = n
      /\ \A x \in DOMAIN map : x \in D /\ x # k /\ m[x] = map[x]
  BY Zenon, <1>1
<1>4. /\ DOMAIN map \subseteq Keys /\ IsFiniteSet(DOMAIN map)
      /\ map \in [DOMAIN map -> [value : Values, entry : Addrs]]
      /\ max_entries \in 0..MaxEntries
  BY Zenon DEF MapOk
<1>5. /\ IsFiniteSet(D) /\ Cardinality(D) = Cardinality(DOMAIN map) + 1
  BY Zenon, <1>1, <1>4, FS_AddElement
<1>6. Cardinality(D) <= max_entries
  <2>1. Cardinality(DOMAIN map) \in Nat
    BY Zenon, <1>4, FS_CardinalityType
  <2> QED BY <2>1, <1>4, <1>5, MaxEntriesAssumption
<1>7. m \in [D -> [value : Values, entry : Addrs]] /\ D \subseteq Keys
  BY <1>1, <1>2, <1>4
<1>8. MapOk(m)
  BY Zenon, <1>3, <1>5, <1>6, <1>7 DEF MapOk
<1>9. Entries(m) = Entries(map) \cup {a}
  <2>1. ASSUME NEW b \in Entries(m) PROVE b \in Entries(map) \cup {a}
    <3>1. PICK x \in D : b = m[x].entry
      BY Zenon, <1>3 DEF Entries
    <3>2. CASE x = k
      BY Zenon, <3>1, <3>2, <1>2, <1>3
    <3>3. CASE x # k
      <4>1. x \in DOMAIN map /\ b = map[x].entry
        BY Zenon, <3>1, <3>3, <1>1, <1>3
      <4> QED BY Zenon, <4>1 DEF Entries
    <3> QED BY Zenon, <3>2, <3>3
  <2>2. ASSUME NEW b \in Entries(map) PROVE b \in Entries(m)
    BY Zenon, <1>3 DEF Entries
  <2>3. a \in Entries(m)
    <3>1. k \in DOMAIN m /\ a = m[k].entry
      BY Zenon, <1>1, <1>2, <1>3
    <3> QED BY Zenon, <3>1 DEF Entries
  <2> QED BY Zenon, <2>1, <2>2, <2>3
<1>10. KeysOk(m, r)
  <2> SUFFICES ASSUME NEW x \in D PROVE KeyOf(r)[m[x].entry] = x
    BY Zenon, <1>3 DEF KeysOk
  <2>1. PICK K : /\ K = KeyOf(l) /\ DOMAIN K = Pointers
                 /\ K = [y \in Pointers |-> K[y]]
    BY Zenon DEF KeyOf
  <2>2. CASE x = k
    <3>1. a \in Pointers /\ m[x].entry = a
      BY Zenon, <2>2, <1>2, <1>3 DEF Pointers
    <3> QED BY <3>1, <2>1, <2>2
  <2>3. CASE x # k
    <3>1. x \in DOMAIN map /\ m[x].entry = map[x].entry
      BY Zenon, <2>3, <1>1, <1>3
    <3>2. map[x].entry # a /\ K[map[x].entry] = x
      BY Zenon, <3>1, <2>1 DEF Entries, KeysOk
    <3>3. map[x].entry \in Pointers
      BY <3>1, <1>4 DEF Pointers
    <3> QED BY <3>1, <3>2, <3>3, <2>1
  <2> QED BY Zenon, <2>2, <2>3
<1> QED BY Zenon, <1>1, <1>8, <1>9, <1>10

\* Only a map of capacity 0 is full and has no tail.
LEMMA NullTailOk ==
    ASSUME Inv, NullTail
    PROVE  Lost'
<1>1. /\ Full /\ tail = Null /\ mem' = [mem EXCEPT ![Null] = Fault]
      /\ UNCHANGED <<max_entries, map_impl, head, tail, ret>>
  BY Zenon DEF NullTail
<1>2. PICK E : E = Entries(map_impl)
  BY Zenon
<1>3. /\ List \in Lists
      /\ Chain(NextOf(List), PrevOf(List), List.head, List.tail, E)
  BY Zenon, <1>2 DEF Inv, ListOk
<1>4. List.mem = mem /\ List.head = head /\ List.tail = tail
  BY DEF List
<1>5. E = {}
  <2>1. E # {} => List.tail \in E /\ Null \notin E
    BY <1>3, LinkedEnds
  <2> QED BY Zenon, <1>1, <1>4, <2>1
<1>6. head = Null
  BY Zenon, <1>3, <1>4, <1>5 DEF Chain
<1>7. DOMAIN map_impl = {}
  BY Zenon, <1>2, <1>5 DEF Entries
<1>8. max_entries = 0
  BY <1>1, <1>7, FS_EmptySet DEF Full
<1>9. mem \in [Pointers -> Entry] /\ Null \in Pointers
  BY <1>3, <1>4 DEF Lists, Pointers
<1>10. Fault \in Entry
  BY <1>9 DEF Fault, Blank, Entry
<1>11. mem' \in [Pointers -> Entry] /\ mem'[Null] = Fault
  BY <1>1, <1>9, <1>10
<1>12. ret \in Results
  BY Zenon DEF Inv
<1> QED BY Zenon, <1>1, <1>6, <1>7, <1>8, <1>11, <1>12 DEF Lost, Results, Pointers, Entry

\* elem_update keeps the invariant, or meets the null tail.
LEMMA UpdateOk ==
    ASSUME Inv, NEW k \in Keys, NEW v \in Values, NEW flags \in Flags,
           elem_update(k, v, flags)
    PROVE  Inv' \/ Lost'
<1>1. ASSUME NEW error \in {"EINVAL", "EEXIST", "ENOENT"}, Fail(error)
      PROVE  Inv'
  BY Zenon, <1>1, FailOk
<1>2. ASSUME k \in DOMAIN map_impl,
             Finish(move_to_head(List, map_impl[k].entry),
                    [map_impl EXCEPT ![k].value = v], "ok")
      PROVE  Inv'
  <2>1. PICK map : map = [map_impl EXCEPT ![k].value = v]
    BY Zenon
  <2>2. map_impl \in [DOMAIN map_impl -> [value : Values, entry : Addrs]]
    BY Zenon DEF Inv, MapOk
  <2>3. /\ DOMAIN map = DOMAIN map_impl
        /\ map \in [DOMAIN map -> [value : Values, entry : Addrs]]
        /\ \A x \in DOMAIN map : map[x].entry = map_impl[x].entry
    BY <1>2, <2>1, <2>2
  <2>4. "ok" \in Results
    BY Zenon DEF Results
  <2>5. Finish(move_to_head(List, map_impl[k].entry), map, "ok")
    BY Zenon, <1>2, <2>1
  <2> QED BY Zenon, <1>2, <2>3, <2>4, <2>5, TouchOk
<1>3. ASSUME k \notin DOMAIN map_impl, ~(Full /\ tail = Null),
             NEW a \in Addrs \ Owned(RoomMap, RoomList),
             Finish(insert_new_entry(RoomList, a, k), Added(RoomMap, k, v, a),
                    "ok")
      PROVE  Inv'
  <2>1. PICK map, l : map = RoomMap /\ l = RoomList
    BY Zenon
  <2>2. /\ MapOk(map) /\ KeysOk(map, l) /\ ListOk(l, Entries(map))
        /\ Cardinality(DOMAIN map) < max_entries /\ k \notin DOMAIN map
    BY Zenon, <2>1, <1>3, RoomOk
  <2>3. a \in Addrs \ Entries(map) /\ l \in Lists
    BY Zenon, <1>3, <2>1, <2>2, OwnedEntries DEF ListOk
  <2>4. PICK r, m : r = insert_new_entry(l, a, k) /\ m = Added(map, k, v, a)
    BY Zenon
  <2>5. /\ ListOk(r, Entries(map) \cup {a})
        /\ KeyOf(r) = [KeyOf(l) EXCEPT ![a] = k]
    <3>1. PICK E : E = Entries(map) /\ ListOk(l, E) /\ a \in Addrs \ E
      BY Zenon, <2>2, <2>3
    <3>2. /\ ListOk(insert_new_entry(l, a, k), E \cup {a})
          /\ KeyOf(insert_new_entry(l, a, k)) = [KeyOf(l) EXCEPT ![a] = k]
      BY <3>1, InsertOk
    <3> QED BY Zenon, <2>4, <3>1, <3>2
  <2>6. MapOk(m) /\ KeysOk(m, r) /\ Entries(m) = Entries(map) \cup {a}
    BY <2>2, <2>3, <2>4, <2>5, AddOk
  <2>7. ListOk(r, Entries(m))
    BY Zenon, <2>5, <2>6
  <2>8. Finish(r, m, "ok") /\ "ok" \in Results
    BY Zenon, <1>3, <2>1, <2>4 DEF Results
  <2> QED BY Zenon, <2>6, <2>7, <2>8, FinishOk
<1>4. \/ \E error \in {"EINVAL", "EEXIST", "ENOENT"} : Fail(error)
      \/ /\ k \in DOMAIN map_impl
         /\ Finish(move_to_head(List, map_impl[k].entry),
                   [map_impl EXCEPT ![k].value = v], "ok")
      \/ NullTail
      \/ /\ k \notin DOMAIN map_impl /\ ~(Full /\ tail = Null)
         /\ \E a \in Addrs \ Owned(RoomMap, RoomList) :
               Finish(insert_new_entry(RoomList, a, k),
                      Added(RoomMap, k, v, a), "ok")
  BY Zenon DEF elem_update, Added
<1> QED BY Zenon, <1>1, <1>2, <1>3, <1>4, NullTailOk

----------------------------------------------------------------------------
(* The theorems *)

\* The empty map and the empty list.
LEMMA InitInv == Init => Inv
<1> SUFFICES ASSUME Init PROVE Inv
  BY Zenon
<1>1. /\ map_impl = [k \in {} |-> k] /\ mem = [a \in Pointers |-> Blank]
      /\ head = Null /\ tail = Null /\ ret = "ok" /\ Null \in Pointers
      /\ max_entries \in 0..MaxEntries
  BY Zenon DEF Init, Pointers
<1>2. DOMAIN map_impl = {} /\ Entries(map_impl) = {}
  BY <1>1 DEF Entries
<1>3. MapOk(map_impl)
  <2>1. IsFiniteSet({}) /\ Cardinality({}) = 0
    BY Zenon, FS_EmptySet
  <2>2. map_impl \in [{} -> [value : Values, entry : Addrs]]
    BY <1>1
  <2>3. Cardinality({}) <= max_entries
    BY <1>1, <2>1, MaxEntriesAssumption
  <2> QED BY Zenon, <1>1, <1>2, <2>1, <2>2, <2>3 DEF MapOk
<1>4. Blank \in Entry
  BY <1>1 DEF Blank, Entry
<1>5. List \in Lists /\ List.mem = mem /\ List.head = Null /\ List.tail = Null
  BY <1>1, <1>4 DEF List, Lists
<1>6. Chain(NextOf(List), PrevOf(List), Null, Null, {})
  BY Zenon DEF Chain
<1>7. ListOk(List, Entries(map_impl))
  BY Zenon, <1>1, <1>2, <1>5, <1>6 DEF ListOk
<1>8. KeysOk(map_impl, List) /\ ret \in Results
  BY Zenon, <1>1, <1>2 DEF KeysOk, Results
<1> QED BY Zenon, <1>3, <1>7, <1>8 DEF Inv

\* In the invariant nothing went through a null pointer, else it did.
LEMMA GoneOrNot == (Inv => ~Gone) /\ (Lost => Gone)
<1>1. ASSUME Inv PROVE mem[Null] = Blank
  <2>1. List.mem[Null] = Blank
    BY Zenon, <1>1 DEF Inv, ListOk
  <2> QED BY <2>1 DEF List
<1>2. Fault # Blank
  BY AddrsAssumption DEF Fault, Blank
<1> QED BY Zenon, <1>1, <1>2 DEF Gone, Lost

\* Every call of the map keeps the invariant, or meets the null tail.
LEMMA InvStep == (Inv \/ Lost) /\ [Next]_vars => (Inv' \/ Lost')
<1> SUFFICES ASSUME Inv \/ Lost, [Next]_vars PROVE Inv' \/ Lost'
  BY Zenon
<1>1. ASSUME Inv, UNCHANGED vars PROVE Inv'
  <2>1. PICK map, l : map = map_impl /\ l = List
    BY Zenon
  <2>2. MapOk(map) /\ ListOk(l, Entries(map)) /\ KeysOk(map, l)
    BY Zenon, <1>1, <2>1 DEF Inv
  <2>3. /\ map_impl' = map /\ List' = l /\ ret' = ret
        /\ max_entries' = max_entries
    BY Zenon, <1>1, <2>1 DEF vars, List
  <2>4. MapOk(map_impl)' /\ (ret \in Results)'
    BY Zenon, <1>1, <2>2, <2>3 DEF MapOk, Results, Inv
  <2>5. ListOk(List, Entries(map_impl))' /\ KeysOk(map_impl, List)'
    BY Zenon, <2>2, <2>3
  <2> QED BY Zenon, <2>4, <2>5 DEF Inv
<1>2. ASSUME Lost, UNCHANGED vars PROVE Lost'
  BY Zenon, <1>2 DEF Lost, vars, Results
<1>3. ASSUME Inv, Step PROVE Inv' \/ Lost'
  BY Zenon, <1>3, LookupOk, UpdateOk, DeleteOk DEF Step
<1> QED BY Zenon, <1>1, <1>2, <1>3, GoneOrNot DEF Next

\* The map and its list agree after every call, unless it was an insertion
\* into a map of capacity 0.
THEOREM ListFollowsMap == Spec => [](Inv \/ Lost)
BY InitInv, InvStep, PTL DEF Spec

\* The state has its types: max_entries is a bound of the map's size.
THEOREM LruTypes == Spec => []TypeOK
<1>1. Inv => TypeOK
  <2> SUFFICES ASSUME Inv PROVE TypeOK
    BY Zenon
  <2>1. /\ max_entries \in 0..MaxEntries /\ DOMAIN map_impl \subseteq Keys
        /\ Cardinality(DOMAIN map_impl) <= max_entries
        /\ \A k \in DOMAIN map_impl :
              map_impl[k] \in [value : Values, entry : Addrs]
    BY Zenon DEF Inv, MapOk
  <2>2. /\ mem \in [Pointers -> Entry] /\ head \in Pointers
        /\ tail \in Pointers
    <3>1. List \in Lists
      BY Zenon DEF Inv, ListOk
    <3> QED BY <3>1 DEF List, Lists
  <2> QED BY Zenon, <2>1, <2>2 DEF Inv, Results, TypeOK
<1>2. Lost => TypeOK
  <2> SUFFICES ASSUME Lost PROVE TypeOK
    BY Zenon
  <2>1. max_entries \in 0..MaxEntries /\ DOMAIN map_impl \subseteq Keys
    BY MaxEntriesAssumption DEF Lost
  <2>2. Cardinality(DOMAIN map_impl) <= max_entries
    BY FS_EmptySet DEF Lost
  <2> QED BY Zenon, <2>1, <2>2 DEF Lost, Results, TypeOK, Pointers
<1> QED BY <1>1, <1>2, ListFollowsMap, PTL

\* No operation goes through a null pointer: an entry that is not the head has
\* a previous one that is still alive, and a full map has a tail, unless its
\* capacity is 0.
THEOREM NoOperationOnNull == Spec => []NoNullDereference
<1>1. Inv \/ Lost => NoNullDereference
  BY Zenon, GoneOrNot DEF NoNullDereference, Lost
<1> QED BY <1>1, ListFollowsMap, PTL

\* Nothing is alive in an empty list.
LEMMA NothingLive == Lost => Live = {} /\ Closure(mem, {head}) = {}
<1> SUFFICES ASSUME Lost PROVE Live = {} /\ Closure(mem, {head}) = {}
  BY Zenon
<1>1. \A roots \in SUBSET {Null} : Closure(mem, roots) = {}
  BY Zenon DEF Closure, Closed
<1>2. List.mem = mem /\ List.head = Null /\ List.tail = Null
  BY DEF List, Lost
<1>3. {map_impl[k].entry : k \in DOMAIN map_impl} = {}
  BY Zenon DEF Lost
<1>4. Live = Closure(mem, {Null})
  BY <1>2, <1>3 DEF Live, Owned
<1> QED BY Zenon, <1>1, <1>4 DEF Lost

\* Nothing evicted or deleted stays alive, and nothing of the map is lost.
THEOREM NothingLeaks == Spec => []NoLeak
<1>1. Inv => NoLeak
  <2> SUFFICES ASSUME Inv PROVE NoLeak
    BY Zenon
  <2>1. Live = {map_impl[k].entry : k \in DOMAIN map_impl}
    BY Zenon, LiveEntries DEF Entries
  <2>2. ASSUME NEW k \in DOMAIN map_impl
        PROVE  mem[map_impl[k].entry].key = k
    <3>1. KeyOf(List)[map_impl[k].entry] = k
      BY Zenon DEF Inv, KeysOk
    <3>2. map_impl[k].entry \in Pointers
      BY DEF Inv, MapOk, Pointers
    <3>3. List \in Lists /\ List.mem = mem
      BY DEF Inv, ListOk, List
    <3>4. KeyOf(List)[map_impl[k].entry] = mem[map_impl[k].entry].key
      BY Zenon, <3>2, <3>3 DEF KeyOf
    <3> QED BY Zenon, <3>1, <3>4
  <2> QED BY Zenon, <2>1, <2>2 DEF NoLeak
<1>2. Lost => NoLeak
  BY Zenon, NothingLive DEF NoLeak, Lost
<1> QED BY <1>1, <1>2, ListFollowsMap, PTL

\* The list reads the same from both ends and reaches every entry alive.
THEOREM ListIsSound == Spec => []ListSound
<1>1. Inv => ListSound
  <2> SUFFICES ASSUME Inv PROVE ListSound
    BY Zenon
  <2>1. PICK E, nx, pv : /\ E = Live /\ nx = NextOf(List) /\ pv = PrevOf(List)
                         /\ Chain(nx, pv, head, tail, E)
    <3>1. Chain(NextOf(List), PrevOf(List), List.head, List.tail, Live)
      BY Zenon, LiveEntries DEF Inv, ListOk
    <3>2. List.head = head /\ List.tail = tail
      BY DEF List
    <3> QED BY Zenon, <3>1, <3>2
  <2>2. \A a \in Pointers : nx[a] = mem[a].next /\ pv[a] = mem[a].prev
    <3>1. List \in Lists /\ List.mem = mem
      BY DEF Inv, ListOk, List
    <3> QED BY Zenon, <3>1, <2>1, LinksOf
  <2>3. E \subseteq Addrs /\ E \subseteq Pointers /\ Null \notin E
    BY Zenon, <2>1, AddrsAssumption DEF Chain, Pointers
  <2>4. (head = Null) = (tail = Null)
    BY Zenon, <2>1 DEF Chain
  <2>5. head # Null => mem[head].prev = Null /\ mem[tail].next = Null
    <3>1. head # Null =>
            pv[head] = Null /\ nx[tail] = Null /\ head \in E /\ tail \in E
      BY Zenon, <2>1 DEF Chain
    <3> QED BY Zenon, <3>1, <2>2, <2>3
  <2>6. \A a \in E : mem[a].next # Null => mem[mem[a].next].prev = a
    <3> SUFFICES ASSUME NEW a \in E, mem[a].next # Null
                 PROVE  mem[mem[a].next].prev = a
      BY Zenon
    <3>1. PICK y : y = nx[a] /\ y = mem[a].next
      BY Zenon, <2>2, <2>3
    <3>2. y \in E /\ pv[y] = a
      BY Zenon, <3>1, <2>1 DEF Chain
    <3>3. mem[y].prev = a
      BY Zenon, <3>2, <2>2, <2>3
    <3> QED BY Zenon, <3>1, <3>3
  <2>7. E = Closure(mem, {head})
    <3>1. Closed(mem, {head}, E)
      <4>1. {head} \ {Null} \subseteq E
        BY Zenon, <2>1 DEF Chain
      <4>2. ASSUME NEW a \in E PROVE mem[a].next \in E \cup {Null}
        BY Zenon, <2>1, <2>2, <2>3 DEF Chain
      <4> QED BY Zenon, <4>1, <4>2 DEF Closed
    <3>2. ASSUME NEW S \in SUBSET Addrs, Closed(mem, {head}, S)
          PROVE  E \subseteq S
      <4>1. head # Null => head \in S \cap E
        BY Zenon, <3>2, <2>1 DEF Closed, Chain
      <4>2. ASSUME NEW a \in S \cap E PROVE nx[a] \in (S \cap E) \cup {Null}
        <5>1. nx[a] \in S \cup {Null}
          BY Zenon, <3>2, <2>2, <2>3 DEF Closed
        <5>2. nx[a] \in E \cup {Null}
          BY Zenon, <2>1 DEF Chain
        <5> QED BY Zenon, <5>1, <5>2
      <4>3. Follows(nx, head, S \cap E) /\ S \cap E \in SUBSET E
        BY Zenon, <4>1, <4>2 DEF Follows
      <4>4. S \cap E = E
        BY Zenon, <4>3, <2>1 DEF Chain
      <4> QED BY Zenon, <4>4
    <3> QED BY Zenon, <3>1, <3>2, <2>3 DEF Closure
  <2> QED BY Zenon, <2>1, <2>4, <2>5, <2>6, <2>7 DEF ListSound
<1>2. Lost => ListSound
  BY Zenon, NothingLive DEF ListSound, Lost
<1> QED BY <1>1, <1>2, ListFollowsMap, PTL
=============================================================================
