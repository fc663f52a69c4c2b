----------------------------- MODULE RpcStubProofs ----------------------------
(***************************************************************************)
(* The memory of the registration, for any files in any order: what the    *)
(* caller table points to exists, and addresses are freed once.  With its  *)
(* calls RpcStub implements RpcRegister, whose theorems therefore hold of  *)
(* it, and a call returns what the method returns: a number as it is, a    *)
(* string as JSON writes it.                                               *)
(***************************************************************************)
EXTENDS RpcStub, SequenceTheorems, WellFoundedInduction, TLAPS

-------------------------------------------------------------------------------
(* The memory of the registration *)

\* Entries belong to trees that were kept.
TableInv == table \in Seq(Entry(Trees \ deleted))

\* The strings that are gone and the one that is current.  An address is stale
\* only while it is that of a tree that was deleted for want of a port.
AddressInv ==
  /\ AddressesFreedOnce
  /\ fault \in {"double free", "use after free"} => ip \in deleted
  /\ ip \in deleted => Json[parsed[ip]].remote

\* What every step keeps.
RegisterInv == TypeOK /\ TableInv /\ AddressInv

\* Parsing adds one tree and changes none.
LEMMA Parse ==
  ASSUME parsed \in Seq(File), NEW f \in File, parsed' = Append(parsed, f)
  PROVE  /\ parsed' \in Seq(File)
         /\ Len(parsed) + 1 \notin Trees
         /\ Trees' = Trees \cup {Len(parsed) + 1}
         /\ \A t \in Trees : parsed'[t] = parsed[t]
         /\ parsed'[Len(parsed) + 1] = f
BY DEF Trees

\* No number of a tree is Null.
LEMMA TreesNotNull ==
  ASSUME parsed \in Seq(File)
  PROVE  Null \notin Trees /\ Len(parsed) + 1 # Null
BY RegisterAssumption DEF Trees

\* A set of natural numbers that is not empty has a least one.
LEMMA Least ==
  ASSUME NEW T, T \subseteq Nat, T # {}
  PROVE  \E i \in T : \A j \in T : i <= j
<1>1. \E i \in T : \A j \in T : ~(<<j, i>> \in OpToRel(<, Nat))
  BY WFMin, NatLessThanWellFounded, Zenon
<1>2. \A i, j \in Nat : j < i => <<j, i>> \in OpToRel(<, Nat)
  BY Zenon DEF OpToRel
<1>3. \A i, j \in T : ~(<<j, i>> \in OpToRel(<, Nat)) => ~(j < i)
  BY <1>2, Zenon
<1>4. PICK i \in T : \A j \in T : ~(j < i)
  BY <1>1, <1>3, Zenon
<1>5. QED BY <1>4

\* A lookup that finds something finds the first hit.
LEMMA FirstHit ==
  ASSUME table \in Seq(Entry(Trees)), NEW m, Lookup(m) # Null
  PROVE  \E i \in Hits(m) : Lookup(m) = table[i] /\ \A j \in Hits(m) : i <= j
<1> DEFINE First(i) == \A j \in Hits(m) : i <= j
<1>1. Hits(m) # {} /\ Hits(m) \subseteq Nat
  <2>1. Hits(m) # {}
    BY DEF Lookup
  <2>2. QED BY <2>1 DEF Hits
<1>2. \E i \in Hits(m) : First(i)
  BY <1>1, Least
<1>3. (CHOOSE i \in Hits(m) : First(i)) \in Hits(m) /\ First(CHOOSE i \in Hits(m) : First(i))
  BY <1>2
<1>4. Lookup(m) = table[CHOOSE i \in Hits(m) : First(i)]
  BY <1>1 DEF Lookup
<1>5. QED BY <1>3, <1>4

\* Initially nothing is registered.
LEMMA RegisterInit == Init => RegisterInv
BY RegisterAssumption
   DEF Init, RegisterInv, TypeOK, TableInv, AddressInv, AddressesFreedOnce, Trees

\* Sequences over a set are sequences over a larger one.
LEMMA Wider ==
  ASSUME NEW S, NEW T, S \subseteq T, NEW s \in Seq(S)
  PROVE  s \in Seq(T)
OBVIOUS

\* A function on the first numbers is a sequence.
LEMMA FunctionIsSeq ==
  ASSUME NEW S, NEW n \in Nat, NEW g \in [1..n -> S]
  PROVE  g \in Seq(S)
OBVIOUS

\* A declaration the loop survives fits an entry.
LEMMA GoodDeclaration ==
  ASSUME NEW d \in Declaration, Trouble(d) = "none"
  PROVE  d.method \in Method /\ d.params \in 0..MaxParams
BY RegisterAssumption DEF Declaration, Trouble

\* Entries pushed for a tree that is kept leave all entries with kept trees.
LEMMA PushKept ==
  ASSUME RegisterInv, NEW f \in File, NEW config \in Seq(Declaration),
         NEW n \in 0..Len(config), \A i \in 1..n : Trouble(config[i]) = "none",
         parsed' = Append(parsed, f), UNCHANGED deleted,
         table' = Push(config, Len(parsed) + 1, n)
  PROVE  TableInv'
<1> DEFINE t == Len(parsed) + 1
           Kept == Entry((Trees \ deleted)')
           entry(i) == LET d == config[n + 1 - i]
                       IN  [method |-> d.method, tree |-> t, count |-> d.params,
                            handler |-> Found(d.method)]
<1>1. t \in (Trees \ deleted)' /\ Trees \ deleted \subseteq (Trees \ deleted)'
  BY Parse DEF RegisterInv, TypeOK
<1>2. ASSUME NEW i \in 1..n PROVE entry(i) \in Kept
  <2>1. n + 1 - i \in 1..n /\ config[n + 1 - i] \in Declaration
    OBVIOUS
  <2>2. config[n + 1 - i].method \in Method /\ config[n + 1 - i].params \in 0..MaxParams
    BY <2>1, GoodDeclaration
  <2>3. Found(config[n + 1 - i].method) \in BOOLEAN
    BY DEF Found
  <2>4. QED BY <1>1, <2>2, <2>3 DEF Entry
<1>3. [i \in 1..n |-> entry(i)] \in Seq(Kept)
  <2> HIDE DEF Kept, entry
  <2>1. [i \in 1..n |-> entry(i)] \in [1..n -> Kept]
    BY <1>2
  <2>2. n \in Nat
    OBVIOUS
  <2>3. QED BY <2>1, <2>2, FunctionIsSeq
<1>4. table \in Seq(Kept)
  <2>1. Entry(Trees \ deleted) \subseteq Kept
    BY <1>1 DEF Entry
  <2>2. QED BY <2>1, Wider DEF RegisterInv, TableInv
<1>5. table' = [i \in 1..n |-> entry(i)] \o table
  BY DEF Push
<1>6. table' \in Seq(Kept)
  <2> HIDE DEF Kept, entry
  <2>1. QED BY <1>3, <1>4, <1>5, ConcatProperties
<1>7. QED BY <1>6 DEF TableInv

\* Entries with kept trees are entries.
LEMMA KeptTyped ==
  ASSUME NEW trees, NEW gone, NEW list \in Seq(Entry(trees \ gone))
  PROVE  list \in Seq(Entry(trees))
<1>1. Entry(trees \ gone) \subseteq Entry(trees)
  BY DEF Entry
<1>2. QED BY <1>1, Wider

\* Parsing a tree that is deleted at once leaves the entries alone.
LEMMA SameTable ==
  ASSUME RegisterInv, NEW f \in File, parsed' = Append(parsed, f), UNCHANGED table,
         deleted' \subseteq deleted \cup {Len(parsed) + 1}
  PROVE  TableInv'
<1>1. Trees \ deleted \subseteq (Trees \ deleted)'
  BY Parse DEF RegisterInv, TypeOK
<1>2. Entry(Trees \ deleted) \subseteq Entry((Trees \ deleted)')
  BY <1>1 DEF Entry
<1>3. QED BY <1>2, Wider DEF RegisterInv, TableInv

\* A new address leaves one address to free.
LEMMA NewAddressInv ==
  ASSUME RegisterInv, NEW f \in File, NewAddress(f),
         deleted' = deleted \/ deleted' = deleted \cup {Len(parsed) + 1},
         fault' \in {"none", "null", "assert", "overflow"}, fault = "none"
  PROVE  /\ AddressInv'
         /\ parsed' \in Seq(File) /\ deleted' \subseteq Trees' /\ freed' \subseteq Trees'
         /\ ip' \in Trees' \cup {Null}
<1> DEFINE t == Len(parsed) + 1
<1>1. /\ parsed' \in Seq(File) /\ Trees' = Trees \cup {t} /\ t \notin Trees
      /\ parsed'[t] = f /\ \A u \in Trees : parsed'[u] = parsed[u]
  BY Parse DEF RegisterInv, TypeOK, NewAddress
<1>2. /\ deleted \subseteq Trees /\ freed \subseteq Trees /\ ip \in Trees \cup {Null}
      /\ freed \cap deleted = {} /\ ip \notin freed
      /\ Trees \subseteq freed \cup deleted \cup {ip}
  BY DEF RegisterInv, TypeOK, AddressInv, AddressesFreedOnce
<1>3. ip \notin deleted /\ freed' = freed \cup ({ip} \ {Null}) /\ ip' = t /\ Json[f].remote
  BY DEF NewAddress, FreeAddress, Dangling
<1> HIDE DEF t
<1>4. deleted' = deleted \/ deleted' = deleted \cup {t}
  BY DEF t
<1>5. freed' \subseteq Trees /\ deleted' \subseteq Trees' /\ ip' \in Trees'
  BY <1>1, <1>2, <1>3, <1>4
<1>6. freed' \cap deleted' = {} /\ ip' \notin freed'
  BY <1>1, <1>2, <1>3, <1>4, <1>5
<1>7. Trees' \subseteq freed' \cup deleted' \cup {ip'}
  <2>1. Null \notin Trees
    BY TreesNotNull DEF RegisterInv, TypeOK
  <2>2. QED BY <2>1, <1>1, <1>2, <1>3, <1>4
<1>8. Json[parsed'[ip']].remote
  BY <1>1, <1>3
<1>9. QED BY <1>1, <1>5, <1>6, <1>7, <1>8 DEF AddressInv, AddressesFreedOnce

\* Registering a file keeps the invariant, whatever is wrong with it.
LEMMA LoadInv ==
  ASSUME RegisterInv, NEW f \in File, Load(f)
  PROVE  RegisterInv'
<1>1. CASE Unreadable(f)
  BY <1>1 DEF Unreadable, RegisterInv, TypeOK, TableInv, AddressInv, AddressesFreedOnce, Trees
<1>2. CASE NoRemote(f)
  <2>1. TableInv'
    BY <1>2, SameTable DEF NoRemote
  <2>2. AddressInv'
    <3> DEFINE t == Len(parsed) + 1
    <3>1. Trees' = Trees \cup {t} /\ t \notin Trees /\ t # Null
          /\ \A u \in Trees : parsed'[u] = parsed[u]
      BY <1>2, Parse, TreesNotNull DEF NoRemote, RegisterInv, TypeOK
    <3>2. deleted' = deleted \cup {t} /\ UNCHANGED <<freed, ip, fault>> /\ fault = "none"
      BY <1>2 DEF NoRemote, Load
    <3> HIDE DEF t
    <3>3. AddressesFreedOnce'
      BY <3>1, <3>2 DEF RegisterInv, TypeOK, AddressInv, AddressesFreedOnce
    <3>4. ip' \in deleted' => ip \in deleted /\ ip \in Trees
      BY <3>1, <3>2 DEF RegisterInv, TypeOK
    <3>5. QED BY <3>1, <3>2, <3>3, <3>4 DEF RegisterInv, AddressInv
  <2>3. parsed' \in Seq(File) /\ deleted' \subseteq Trees' /\ freed' \subseteq Trees'
        /\ ip' \in Trees' \cup {Null}
    BY <1>2, Parse DEF NoRemote, RegisterInv, TypeOK
  <2>4. QED BY <1>2, <2>1, <2>2, <2>3, KeptTyped DEF NoRemote, RegisterInv, TypeOK, TableInv
<1>3. CASE FreedTwice(f)
  <2>1. TableInv'
    BY <1>3, SameTable DEF FreedTwice
  <2>2. AddressInv'
    BY <1>3, Parse, TreesNotNull
       DEF FreedTwice, Dangling, RegisterInv, TypeOK, AddressInv, AddressesFreedOnce
  <2>3. parsed' \in Seq(File) /\ deleted' \subseteq Trees' /\ freed' \subseteq Trees'
        /\ ip' \in Trees' \cup {Null}
    BY <1>3, Parse DEF FreedTwice, RegisterInv, TypeOK
  <2>4. QED BY <1>3, <2>1, <2>2, <2>3, KeptTyped DEF FreedTwice, RegisterInv, TypeOK, TableInv
<1>4. CASE NoPort(f)
  <2>1. TableInv'
    BY <1>4, SameTable DEF NoPort, NewAddress
  <2>2. fault = "none" /\ fault' = "none"
    BY <1>4 DEF Load, NoPort
  <2>3. QED BY <1>4, <2>1, <2>2, NewAddressInv, KeptTyped DEF NoPort, RegisterInv, TypeOK, TableInv
<1> DEFINE config == Json[f].config
<1>5. ASSUME NewAddress(f) PROVE config \in Seq(Declaration)
  BY <1>5, RegisterAssumption DEF NewAddress, Tree
<1>6. CASE Registered(f)
  <2>1. TableInv'
    <3>1. config \in Seq(Declaration) /\ Len(config) \in 0..Len(config)
      BY <1>5, <1>6 DEF Registered
    <3>2. \A i \in 1..Len(config) : Trouble(config[i]) = "none"
      BY <1>6, <3>1 DEF Registered
    <3>3. QED BY <1>6, <3>1, <3>2, PushKept DEF Registered, NewAddress
  <2>2. fault = "none" /\ fault' = "none"
    BY <1>6 DEF Load, Registered
  <2>3. QED BY <1>6, <2>1, <2>2, NewAddressInv, KeptTyped DEF Registered, RegisterInv, TypeOK, TableInv
<1>7. CASE Broken(f)
  <2>1. PICK n \in DOMAIN config :
          /\ \A i \in 1..(n - 1) : Trouble(config[i]) = "none"
          /\ Trouble(config[n]) # "none"
          /\ table' = Push(config, Len(parsed) + 1, n - 1)
          /\ fault' = Trouble(config[n])
    BY <1>7 DEF Broken
  <2>2. config \in Seq(Declaration) /\ n - 1 \in 0..Len(config)
    BY <1>5, <1>7, <2>1 DEF Broken
  <2>3. TableInv'
    BY <1>7, <2>1, <2>2, PushKept DEF Broken, NewAddress
  <2>4. fault = "none" /\ fault' \in {"null", "assert", "overflow"}
    BY <1>7, <2>1 DEF Load, Trouble
  <2>5. QED BY <1>7, <2>3, <2>4, NewAddressInv, KeptTyped DEF Broken, RegisterInv, TypeOK, TableInv
<1>8. QED BY <1>1, <1>2, <1>3, <1>4, <1>6, <1>7 DEF Load

\* Looking a method up changes no memory.
LEMMA UseInv ==
  ASSUME RegisterInv, NEW m \in Method, Serve(m) \/ Call(m)
  PROVE  RegisterInv'
<1>1. UNCHANGED <<parsed, deleted, freed, ip, table>>
  BY DEF Serve, Call
<1>2. result' \in {"none", "-1", "-3", "-4", "0", "NULL", "response", "sent"}
  BY DEF Serve, Call, RegisterInv, TypeOK
<1>3. fault = "none" /\ fault' \in {"none", "null", "use after free"}
  BY DEF Serve, Call
<1>4. fault' = "use after free" => ip \in deleted
  BY <1>3 DEF Serve, Call, Dangling, RegisterInv, AddressInv, AddressesFreedOnce
<1>5. QED BY <1>1, <1>2, <1>3, <1>4
          DEF RegisterInv, TypeOK, TableInv, AddressInv, AddressesFreedOnce, Trees

\* The inductive invariant of the registration.
THEOREM RegisterInvHolds == Spec => []RegisterInv
<1>1. RegisterInv /\ [Next]_vars => RegisterInv'
  <2> SUFFICES ASSUME RegisterInv, [Next]_vars PROVE RegisterInv'
    OBVIOUS
  <2>1. CASE UNCHANGED vars
    BY <2>1 DEF vars, RegisterInv, TypeOK, TableInv, AddressInv, AddressesFreedOnce, Trees
  <2>2. QED BY <2>1, LoadInv, UseInv DEF Next
<1>2. QED BY <1>1, RegisterInit, PTL DEF Spec

\* Every registered method's strings are in a tree that was not deleted, whatever
\* files rpc_load_register is given and whatever it refuses.
THEOREM TableNeverDangles == Spec => []EntriesLive
<1>1. RegisterInv => EntriesLive
  <2> SUFFICES ASSUME RegisterInv, NEW i \in DOMAIN table PROVE table[i].tree \notin deleted
    BY DEF EntriesLive
  <2>1. table[i] \in Entry(Trees \ deleted)
    BY DEF RegisterInv, TableInv
  <2>2. QED BY <2>1 DEF Entry
<1>2. QED BY <1>1, RegisterInvHolds, PTL

\* No address is leaked, and none is freed a second time unless it was deleted
\* with a tree that had no port.
THEOREM AddressesOnce == Spec => []AddressesFreedOnce
<1>1. RegisterInv => AddressesFreedOnce
  BY DEF RegisterInv, AddressInv
<1>2. QED BY <1>1, RegisterInvHolds, PTL

\* Whatever files are registered, the address is freed twice or used after it was freed
\* only when one of them had a remote and no port.
THEOREM OnlyPortless == Spec => []OnlyPortlessHurts
<1>1. RegisterInv => OnlyPortlessHurts
  BY DEF RegisterInv, AddressInv, AddressesFreedOnce, OnlyPortlessHurts, Dangling
<1>2. QED BY <1>1, RegisterInvHolds, PTL

-------------------------------------------------------------------------------
(* The order of the table *)

\* Hits and Lookup for any list.
HitsIn(list, m) == {i \in DOMAIN list : list[i].method = m}
LookupIn(list, m) ==
  IF HitsIn(list, m) = {} THEN Null
  ELSE list[CHOOSE i \in HitsIn(list, m) : \A j \in HitsIn(list, m) : i <= j]

\* Lookup is LookupIn of the table, before a step and after it.
LEMMA LookupTable ==
  ASSUME NEW m
  PROVE  Lookup(m) = LookupIn(table, m) /\ Lookup(m)' = LookupIn(table', m)
BY DEF Lookup, Hits, LookupIn, HitsIn

\* What is found is the hit that no other precedes.
LEMMA FoundFirst ==
  ASSUME NEW list, DOMAIN list \subseteq Nat, NEW m, NEW i \in DOMAIN list, list[i].method = m,
         \A j \in DOMAIN list : list[j].method = m => i <= j
  PROVE  LookupIn(list, m) = list[i]
<1> DEFINE First(k) == \A j \in HitsIn(list, m) : k <= j
           chosen == CHOOSE k \in HitsIn(list, m) : First(k)
<1>1. i \in HitsIn(list, m) /\ HitsIn(list, m) \subseteq Nat /\ First(i)
  BY DEF HitsIn
<1>2. chosen \in HitsIn(list, m) /\ First(chosen)
  BY <1>1
<1>3. chosen = i
  <2> HIDE DEF chosen
  <2>1. chosen <= i /\ i <= chosen /\ chosen \in Nat /\ i \in Nat
    BY <1>1, <1>2
  <2>2. QED BY <2>1
<1>4. QED BY <1>1, <1>3 DEF LookupIn

\* A list without the method finds nothing.
LEMMA FoundNone ==
  ASSUME NEW list, NEW m, \A i \in DOMAIN list : list[i].method # m
  PROVE  LookupIn(list, m) = Null
BY DEF LookupIn, HitsIn

\* If the list has the method, some hit is first.
LEMMA SomeFirst ==
  ASSUME NEW list, DOMAIN list \subseteq Nat, NEW m, \E i \in DOMAIN list : list[i].method = m
  PROVE  \E i \in DOMAIN list :
           list[i].method = m /\ \A j \in DOMAIN list : list[j].method = m => i <= j
<1>1. HitsIn(list, m) # {} /\ HitsIn(list, m) \subseteq Nat
  BY DEF HitsIn
<1>2. PICK i \in HitsIn(list, m) : \A j \in HitsIn(list, m) : i <= j
  BY <1>1, Least
<1>3. QED BY <1>2 DEF HitsIn

\* Of the declarations of a method in one file the last is the only one that counts.
LEMMA SomeLast ==
  ASSUME NEW config \in Seq(Declaration), NEW m, \E i \in DOMAIN config : config[i].method = m
  PROVE  \E i \in DOMAIN config :
           config[i].method = m /\ \A j \in DOMAIN config : j > i => config[j].method # m
<1> DEFINE n == Len(config)
           T == {k \in 1..n : config[n + 1 - k].method = m}
<1>1. n \in Nat /\ DOMAIN config = 1..n
  OBVIOUS
<1> HIDE DEF n
<1>2. T # {}
  <2>1. PICK i \in 1..n : config[i].method = m
    BY <1>1
  <2>2. n + 1 - i \in 1..n /\ n + 1 - (n + 1 - i) = i
    BY <1>1
  <2>3. QED BY <2>1, <2>2
<1>3. T \subseteq Nat
  BY <1>1
<1>4. PICK k \in T : \A j \in T : k <= j
  <2> HIDE DEF T
  <2>1. QED BY <1>2, <1>3, Least
<1>5. n + 1 - k \in 1..n /\ config[n + 1 - k].method = m
  BY <1>1
<1>6. ASSUME NEW j \in 1..n, j > n + 1 - k PROVE config[j].method # m
  <2>1. n + 1 - j \in 1..n /\ n + 1 - (n + 1 - j) = j /\ ~(k <= n + 1 - j)
    BY <1>1, <1>4, <1>6
  <2>2. QED BY <2>1, <1>4
<1>7. QED BY <1>1, <1>5, <1>6

\* Where the entries of a pushed file and those before are.
LEMMA Pushed ==
  ASSUME NEW S, table \in Seq(S), NEW config \in Seq(Declaration), NEW tree,
         NEW list, list = Push(config, tree, Len(config))
  PROVE  /\ DOMAIN list = 1..(Len(config) + Len(table))
         /\ \A i \in 1..Len(config) :
              list[i] = LET d == config[Len(config) + 1 - i]
                        IN  [method |-> d.method, tree |-> tree, count |-> d.params,
                             handler |-> Found(d.method)]
         /\ \A i \in 1..Len(table) : list[Len(config) + i] = table[i]
<1> DEFINE n == Len(config)
           entry(i) == LET d == config[n + 1 - i]
                       IN  [method |-> d.method, tree |-> tree, count |-> d.params,
                            handler |-> Found(d.method)]
           new == [i \in 1..n |-> entry(i)]
           k == Len(table)
<1>1. n \in Nat /\ k \in Nat
  OBVIOUS
<1>2. list = new \o table
  BY DEF Push
<1> HIDE DEF entry, n, k
<1>3. new \in Seq({entry(i) : i \in 1..n}) /\ Len(new) = n
  <2> DEFINE T == {entry(i) : i \in 1..n}
  <2>1. new \in [1..n -> T]
    OBVIOUS
  <2>2. Len(new) = n
    BY <1>1
  <2> HIDE DEF T, new
  <2>3. new \in Seq(T)
    BY <1>1, <2>1, FunctionIsSeq
  <2>4. QED BY <2>2, <2>3 DEF T
<1>4. /\ DOMAIN list = 1..(n + k)
      /\ \A i \in 1..n : list[i] = new[i]
      /\ \A i \in 1..k : list[n + i] = table[i]
  <2> HIDE DEF new
  <2> DEFINE R == S \cup {entry(i) : i \in 1..n}
  <2>1. new \in Seq(R) /\ table \in Seq(R)
    BY <1>3, Wider
  <2> DEFINE joined == new \o table
  <2> HIDE DEF R
  <2>2. /\ joined \in Seq(R) /\ Len(joined) = n + k
        /\ \A i \in 1..(n + k) : joined[i] = IF i <= n THEN new[i] ELSE table[i - n]
    <3> HIDE DEF new
    <3>1. joined \in Seq(R) /\ Len(joined) = Len(new) + Len(table)
          /\ \A i \in 1..(Len(new) + Len(table)) :
               joined[i] = IF i <= Len(new) THEN new[i] ELSE table[i - Len(new)]
      BY <2>1, ConcatProperties
    <3>2. QED BY <1>3, <3>1 DEF k
  <2>3. list = joined
    BY <1>2
  <2> HIDE DEF new, joined
  <2>4. DOMAIN list = 1..(n + k)
    BY <2>2, <2>3
  <2>5. ASSUME NEW i \in 1..n PROVE list[i] = new[i]
    BY <1>1, <2>2, <2>3
  <2>6. ASSUME NEW i \in 1..k PROVE list[n + i] = table[i]
    <3>1. n + i \in 1..(n + k) /\ ~(n + i <= n) /\ (n + i) - n = i
      BY <1>1
    <3>2. QED BY <2>2, <2>3, <3>1
  <2>7. QED BY <2>4, <2>5, <2>6
<1>5. QED BY <1>4 DEF entry, n, k
\* What a pushed file does to a lookup: it finds the file's last declaration of the
\* method, and what it found before if the file has none.
LEMMA LookupPushed ==
  ASSUME NEW S, table \in Seq(S), NEW config \in Seq(Declaration), NEW tree,
         NEW list, list = Push(config, tree, Len(config)), NEW m
  PROVE  /\ \A i \in DOMAIN config :
              config[i].method = m /\ (\A j \in DOMAIN config : j > i => config[j].method # m) =>
                LookupIn(list, m) = [method |-> m, tree |-> tree, count |-> config[i].params,
                                     handler |-> Found(m)]
         /\ (\A i \in DOMAIN config : config[i].method # m) =>
                LookupIn(list, m) = LookupIn(table, m)
<1> DEFINE n == Len(config)
           k == Len(table)
<1>1. n \in Nat /\ k \in Nat /\ DOMAIN config = 1..n /\ DOMAIN table = 1..k
  OBVIOUS
<1>2. /\ DOMAIN list = 1..(n + k)
      /\ \A i \in 1..n :
           list[i] = [method |-> config[n + 1 - i].method, tree |-> tree,
                      count |-> config[n + 1 - i].params,
                      handler |-> Found(config[n + 1 - i].method)]
      /\ \A i \in 1..k : list[n + i] = table[i]
  BY Pushed
<1> HIDE DEF n, k
<1>3. DOMAIN list \subseteq Nat /\ DOMAIN table \subseteq Nat
  BY <1>1, <1>2
<1>4. \A i \in 1..n : list[i].method = config[n + 1 - i].method
  <2>1. ASSUME NEW i \in 1..n PROVE list[i].method = config[n + 1 - i].method
    <3> DEFINE d == config[n + 1 - i]
               found == Found(d.method)
    <3>1. list[i] = [method |-> d.method, tree |-> tree, count |-> d.params, handler |-> found]
      BY <1>2
    <3> HIDE DEF d, found
    <3>2. list[i].method = d.method
      BY <3>1
    <3>3. QED BY <3>2 DEF d
  <2>2. QED BY <2>1
<1>5. ASSUME NEW i \in 1..n, config[i].method = m,
             \A j \in 1..n : j > i => config[j].method # m
      PROVE  LookupIn(list, m) = [method |-> m, tree |-> tree, count |-> config[i].params,
                                  handler |-> Found(m)]
  <2> DEFINE p == n + 1 - i
  <2>1. p \in 1..n /\ n + 1 - p = i /\ p \in DOMAIN list
    BY <1>1, <1>2
  <2>2. list[p] = [method |-> m, tree |-> tree, count |-> config[i].params,
                   handler |-> Found(m)]
    BY <1>2, <1>5, <2>1
  <2>3. ASSUME NEW q \in DOMAIN list, list[q].method = m PROVE p <= q
    <3>1. CASE q \in 1..n
      <4> DEFINE e == n + 1 - q
      <4>0. e \in 1..n
        BY <1>1, <3>1
      <4>1. e \in 1..n /\ config[e].method = m
        <5>1. list[q].method = config[e].method
          BY <1>4, <3>1
        <5>2. QED BY <2>3, <4>0, <5>1
      <4>2. ~(n + 1 - q > i)
        BY <1>5, <4>1
      <4>3. QED BY <1>1, <3>1, <4>2
    <3>2. CASE q \notin 1..n
      BY <1>1, <1>2, <2>1, <3>2
    <3>3. QED BY <3>1, <3>2
  <2> HIDE DEF p
  <2>4. LookupIn(list, m) = list[p]
    BY <1>3, <2>1, <2>2, <2>3, FoundFirst
  <2>5. QED BY <2>2, <2>4
<1>6. ASSUME \A i \in 1..n : config[i].method # m
      PROVE  LookupIn(list, m) = LookupIn(table, m)
  <2>1. ASSUME NEW q \in DOMAIN list, list[q].method = m
        PROVE  q - n \in 1..k /\ table[q - n].method = m /\ n + (q - n) = q
    <3>1. q \notin 1..n
      <4>1. ASSUME q \in 1..n PROVE FALSE
        <5> DEFINE e == n + 1 - q
        <5>1. e \in 1..n
          BY <1>1, <4>1
        <5>2. list[q].method = config[e].method
          BY <1>4, <4>1
        <5>3. QED BY <1>6, <2>1, <5>1, <5>2
      <4>2. QED BY <4>1
    <3>2. q - n \in 1..k /\ n + (q - n) = q
      BY <1>1, <1>2, <3>1
    <3>3. QED BY <1>2, <2>1, <3>2
  <2>2. CASE \E i \in DOMAIN table : table[i].method = m
    <3>1. PICK i \in DOMAIN table :
            table[i].method = m /\ \A j \in DOMAIN table : table[j].method = m => i <= j
      BY <1>3, <2>2, SomeFirst
    <3>2. i \in 1..k /\ n + i \in DOMAIN list /\ list[n + i] = table[i]
      BY <1>1, <1>2
    <3>3. ASSUME NEW q \in DOMAIN list, list[q].method = m PROVE n + i <= q
      <4>1. q - n \in 1..k /\ table[q - n].method = m
        BY <2>1, <3>3
      <4>2. i <= q - n /\ q \in Nat
        BY <1>1, <1>2, <3>1, <4>1
      <4>3. QED BY <1>1, <3>2, <4>2
    <3> DEFINE r == n + i
    <3>4. r \in DOMAIN list /\ list[r] = table[i] /\ list[r].method = m
          /\ \A q \in DOMAIN list : list[q].method = m => r <= q
      BY <3>1, <3>2, <3>3
    <3> HIDE DEF r
    <3>5. LookupIn(list, m) = list[r]
      BY <1>3, <3>4, FoundFirst
    <3>6. LookupIn(table, m) = table[i]
      BY <1>3, <3>1, FoundFirst
    <3>7. QED BY <3>4, <3>5, <3>6
  <2>3. CASE \A i \in DOMAIN table : table[i].method # m
    <3>1. LookupIn(table, m) = Null
      BY <2>3, FoundNone
    <3>2. \A q \in DOMAIN list : list[q].method # m
      BY <1>1, <2>1, <2>3
    <3>3. LookupIn(list, m) = Null
      BY <3>2, FoundNone
    <3>4. QED BY <3>1, <3>3
  <2>4. QED BY <2>2, <2>3
<1>7. QED BY <1>1, <1>5, <1>6
\* The declarations of m in file f.
Declares(f, m) == {i \in DOMAIN Json[f].config : Json[f].config[i].method = m}

\* A method that no kept file declares is not found, and any other as it was declared
\* last.
LatestIn(found, kept, files, m) ==
  \/ found = Null /\ \A t \in kept : Declares(files[t], m) = {}
  \/ \E t \in kept : \E i \in Declares(files[t], m) :
       /\ found.tree = t /\ found.count = Json[files[t]].config[i].params
       /\ \A j \in Declares(files[t], m) : ~(j > i)
       /\ \A u \in kept : u > t => Declares(files[u], m) = {}

LatestFound(m) == LatestIn(Lookup(m), Trees \ deleted, parsed, m)

LookupInv == fault = "none" => \A m \in Method : LatestFound(m)

\* What is found depends on the kept files only.
LEMMA LatestSame ==
  ASSUME NEW found, NEW kept, NEW files, NEW after, NEW m, LatestIn(found, kept, files, m),
         \A t \in kept : after[t] = files[t]
  PROVE  LatestIn(found, kept, after, m)
BY DEF LatestIn

\* A newer file without the method changes nothing.
LEMMA LatestOlder ==
  ASSUME NEW found, NEW kept, NEW files, NEW m, LatestIn(found, kept, files, m),
         NEW t, Declares(files[t], m) = {}
  PROVE  LatestIn(found, kept \cup {t}, files, m)
BY DEF LatestIn

\* A file that is parsed and deleted changes nothing for the lookups.
LEMMA LookupSame ==
  ASSUME RegisterInv, NEW m \in Method, LatestFound(m), NEW f \in File,
         parsed' = Append(parsed, f), UNCHANGED table, deleted' = deleted \cup {Len(parsed) + 1}
  PROVE  LatestFound(m)'
<1> DEFINE kept == Trees \ deleted
           after == parsed'
<1>1. (Trees \ deleted)' = kept /\ \A t \in kept : after[t] = parsed[t]
  BY Parse DEF RegisterInv, TypeOK
<1>2. Lookup(m)' = Lookup(m)
  BY LookupTable
<1>3. LatestIn(Lookup(m), kept, after, m)
  <2> HIDE DEF after
  <2>1. LatestIn(Lookup(m), kept, parsed, m)
    BY DEF LatestFound
  <2> HIDE DEF kept
  <2>2. QED BY <1>1, <2>1, LatestSame
<1>4. QED BY <1>1, <1>2, <1>3 DEF LatestFound

\* A file that is registered is where its methods are found, and the others are found
\* where they were.
LEMMA LookupRegistered ==
  ASSUME RegisterInv, NEW m \in Method, LatestFound(m), NEW f \in File,
         parsed' = Append(parsed, f), UNCHANGED deleted,
         Json[f].config \in Seq(Declaration),
         table' = Push(Json[f].config, Len(parsed) + 1, Len(Json[f].config))
  PROVE  LatestFound(m)'
<1> DEFINE kept == Trees \ deleted
           after == parsed'
           new == Len(parsed) + 1
           config == Json[f].config
           list == table'
<1>1. /\ (Trees \ deleted)' = kept \cup {new} /\ \A t \in kept : after[t] = parsed[t]
      /\ after[new] = f /\ \A u \in kept \cup {new} : ~(u > new)
  <2> DEFINE n == Len(parsed)
  <2>1. n \in Nat /\ Trees = 1..n
    <3>1. parsed \in Seq(File)
      BY DEF RegisterInv, TypeOK
    <3>2. QED BY <3>1 DEF Trees
  <2> HIDE DEF n
  <2>2. \A t \in Trees : ~(t > n + 1)
    BY <2>1
  <2>3. n + 1 \notin Trees /\ ~(n + 1 > n + 1)
    BY <2>1
  <2>4. \A t \in Trees : ~(t > new)
    BY <2>2 DEF n
  <2>5. new \notin deleted /\ ~(new > new)
    BY <2>3 DEF RegisterInv, TypeOK, n
  <2>6. QED BY <2>4, <2>5, Parse DEF RegisterInv, TypeOK
<1>2. Lookup(m)' = LookupIn(list, m) /\ Lookup(m) = LookupIn(table, m)
  BY LookupTable
<1>3. list = Push(config, new, Len(config)) /\ table \in Seq(Entry(Trees))
      /\ config \in Seq(Declaration)
  BY DEF RegisterInv, TypeOK
<1>4. LatestIn(Lookup(m), kept, parsed, m)
  BY DEF LatestFound
<1>5. Declares(f, m) = {i \in DOMAIN config : config[i].method = m}
  BY DEF Declares
<1> HIDE DEF list, config, new, after, kept
<1>6. LatestIn(LookupIn(list, m), kept \cup {new}, after, m)
  <2>1. CASE \E i \in DOMAIN config : config[i].method = m
    <3>1. PICK i \in DOMAIN config :
            config[i].method = m /\ \A j \in DOMAIN config : j > i => config[j].method # m
      BY <1>3, <2>1, SomeLast
    <3> DEFINE found == LookupIn(list, m)
    <3>2. found = [method |-> m, tree |-> new, count |-> config[i].params, handler |-> Found(m)]
      BY <1>3, <3>1, LookupPushed
    <3> HIDE DEF found
    <3>3. found.tree = new /\ found.count = config[i].params
      BY <3>2
    <3>4. i \in Declares(f, m) /\ \A j \in Declares(f, m) : ~(j > i)
      BY <1>5, <3>1
    <3>5. found.count = Json[after[new]].config[i].params
      BY <1>1, <3>3 DEF config
    <3>6. LatestIn(found, kept \cup {new}, after, m)
      BY <1>1, <3>3, <3>4, <3>5 DEF LatestIn
    <3>7. QED BY <3>6 DEF found
  <2>2. CASE \A i \in DOMAIN config : config[i].method # m
    <3>1. LookupIn(list, m) = Lookup(m)
      BY <1>2, <1>3, <2>2, LookupPushed
    <3>2. Declares(after[new], m) = {}
      BY <1>1, <1>5, <2>2
    <3>3. LatestIn(Lookup(m), kept, after, m)
      BY <1>1, <1>4, LatestSame
    <3>4. LatestIn(Lookup(m), kept \cup {new}, after, m)
      BY <3>2, <3>3, LatestOlder
    <3>5. QED BY <3>1, <3>4
  <2>3. QED BY <2>1, <2>2
<1>7. QED BY <1>1, <1>2, <1>6 DEF LatestFound, after, list, kept

\* Every step keeps what the lookups find.
LEMMA LookupStep ==
  ASSUME RegisterInv, LookupInv, [Next]_vars
  PROVE  LookupInv'
<1> SUFFICES ASSUME fault' = "none", NEW m \in Method PROVE LatestFound(m)'
  BY DEF LookupInv
<1>1. CASE UNCHANGED <<parsed, deleted, table, fault>>
  <2>1. Lookup(m)' = Lookup(m)
    BY <1>1, LookupTable
  <2>2. LatestFound(m)
    BY <1>1 DEF LookupInv
  <2>3. QED BY <1>1, <2>1, <2>2 DEF LatestFound, Trees
<1>2. ASSUME NEW f \in File, Load(f) PROVE LatestFound(m)'
  <2>1. fault = "none" /\ LatestFound(m)
    BY <1>2 DEF Load, LookupInv
  <2>2. CASE Unreadable(f)
    BY <1>1, <2>2 DEF Unreadable
  <2>3. CASE NoRemote(f)
    BY <2>1, <2>3, LookupSame DEF NoRemote
  <2>4. CASE FreedTwice(f)
    BY <2>4 DEF FreedTwice
  <2>5. CASE NoPort(f)
    BY <2>1, <2>5, LookupSame DEF NoPort, NewAddress
  <2>6. CASE Registered(f)
    <3>1. Json[f].config \in Seq(Declaration)
      BY <2>6, RegisterAssumption DEF Registered, NewAddress, Tree
    <3>2. QED BY <2>1, <2>6, <3>1, LookupRegistered DEF Registered, NewAddress
  <2>7. CASE Broken(f)
    BY <2>7 DEF Broken
  <2>8. QED BY <1>2, <2>2, <2>3, <2>4, <2>5, <2>6, <2>7 DEF Load
<1>3. ASSUME NEW k \in Method, Serve(k) \/ Call(k) PROVE LatestFound(m)'
  BY <1>1, <1>3 DEF Serve, Call
<1>4. QED BY <1>1, <1>2, <1>3 DEF Next, vars

\* However many files are registered, refused or unreadable in between, and however often
\* they declare a method, rpc_process and the client stubs see its last declaration.
THEOREM LatestDeclaration == Spec => []LatestDeclarationFound
<1>1. Init => LookupInv
  <2> SUFFICES ASSUME Init, NEW m \in Method PROVE LatestFound(m)
    BY DEF LookupInv
  <2>1. Lookup(m) = Null /\ Trees = {}
    BY DEF Init, Lookup, Hits, Trees
  <2>2. QED BY <2>1 DEF LatestFound, LatestIn
<1>2. LookupInv => LatestDeclarationFound
  <2> DEFINE kept == Trees \ deleted
  <2>1. ASSUME NEW m, LatestFound(m), NEW u \in kept, Declares(parsed[u], m) # {}
        PROVE  \E i \in Declares(parsed[Lookup(m).tree], m) :
                 /\ Lookup(m).count = Json[parsed[Lookup(m).tree]].config[i].params
                 /\ \A j \in Declares(parsed[Lookup(m).tree], m) : ~(j > i)
                 /\ \A v \in kept : v > Lookup(m).tree => Declares(parsed[v], m) = {}
    BY <2>1 DEF LatestFound, LatestIn
  <2>2. ASSUME NEW m, LatestFound(m), \A u \in kept : Declares(parsed[u], m) = {}
        PROVE  Lookup(m) = Null
    BY <2>2 DEF LatestFound, LatestIn
  <2>3. ASSUME LookupInv, fault = "none", NEW m \in Method
        PROVE  LET D(t, i) == i \in DOMAIN Json[parsed[t]].config
                              /\ Json[parsed[t]].config[i].method = m
               IN  IF \E t \in kept : \E i \in DOMAIN Json[parsed[t]].config : D(t, i)
                   THEN LET t == Lookup(m).tree IN
                        /\ \A u \in kept :
                             u > t => \A i \in DOMAIN Json[parsed[u]].config : ~D(u, i)
                        /\ \E i \in DOMAIN Json[parsed[t]].config :
                             /\ D(t, i) /\ Json[parsed[t]].config[i].params = Lookup(m).count
                             /\ \A j \in DOMAIN Json[parsed[t]].config : j > i => ~D(t, j)
                   ELSE Lookup(m) = Null
    <3>1. LatestFound(m)
      BY <2>3 DEF LookupInv
    <3>2. CASE \E u \in kept : Declares(parsed[u], m) # {}
      <4> DEFINE t == Lookup(m).tree
      <4>1. PICK i \in Declares(parsed[t], m) :
              /\ Lookup(m).count = Json[parsed[t]].config[i].params
              /\ \A j \in Declares(parsed[t], m) : ~(j > i)
              /\ \A v \in kept : v > t => Declares(parsed[v], m) = {}
        BY <2>1, <3>1, <3>2
      <4> HIDE DEF t
      <4>2. \A v \in kept : v > t => \A j \in DOMAIN Json[parsed[v]].config :
                                       Json[parsed[v]].config[j].method # m
        BY <4>1 DEF Declares
      <4>3. i \in DOMAIN Json[parsed[t]].config /\ Json[parsed[t]].config[i].method = m
        BY DEF Declares
      <4>4. \A j \in DOMAIN Json[parsed[t]].config :
              j > i => Json[parsed[t]].config[j].method # m
        BY <4>1 DEF Declares
      <4>5. \E u \in kept : \E j \in DOMAIN Json[parsed[u]].config :
              Json[parsed[u]].config[j].method = m
        BY <3>2 DEF Declares
      <4>6. QED BY <4>1, <4>2, <4>3, <4>4, <4>5 DEF t
    <3>3. CASE \A u \in kept : Declares(parsed[u], m) = {}
      BY <2>2, <3>1, <3>3 DEF Declares
    <3>4. QED BY <3>2, <3>3
  <2>4. QED BY <2>3 DEF LatestDeclarationFound
<1>3. QED BY <1>1, <1>2, LookupStep, RegisterInvHolds, PTL DEF Spec

-------------------------------------------------------------------------------
(* Registration *)

\* A call is of a method the process may know.
MethodInv == stage # "idle" => method \in Method

\* Every step of a stub is a step of registration and lookup, or none of its
\* variables changes.
LEMMA StubStep ==
  ASSUME MethodInv, [StubNext]_stubVars
  PROVE  MethodInv' /\ [Next]_vars
<1>1. ASSUME NEW f \in File, Register(f) PROVE MethodInv' /\ [Next]_vars
  BY <1>1 DEF Register, MethodInv, Next
<1>2. ASSUME NEW m \in Method, NEW a \in Arguments(m), Ask(m, a)
      PROVE  MethodInv' /\ [Next]_vars
  BY <1>2 DEF Ask, MethodInv, Next, callVars
<1>3. ASSUME Answer PROVE MethodInv' /\ [Next]_vars
  <2>1. method \in Method
    BY <1>3 DEF Answer, MethodInv
  <2>2. MethodInv'
    BY <1>3, <2>1 DEF Answer, MethodInv, callVars
  <2>3. QED BY <1>3, <2>1, <2>2 DEF Answer, Next
<1>4. ASSUME Return PROVE MethodInv' /\ [Next]_vars
  BY <1>4 DEF Return, MethodInv
<1>5. ASSUME UNCHANGED stubVars PROVE MethodInv' /\ [Next]_vars
  BY <1>5 DEF stubVars, callVars, MethodInv
<1>6. QED BY <1>1, <1>2, <1>3, <1>4, <1>5 DEF StubNext

\* The calls are a use of registration: whatever clients call and when, tables and
\* addresses behave as RpcRegister says.
THEOREM StubImplementsRegister == StubSpec => Spec
<1>1. StubInit => Init /\ MethodInv
  BY DEF StubInit, MethodInv
<1>2. MethodInv /\ [StubNext]_stubVars => MethodInv' /\ [Next]_vars
  BY StubStep
<1>3. QED BY <1>1, <1>2, PTL DEF StubSpec, Spec

-------------------------------------------------------------------------------
(* Numbers *)

\* A number in units that is a multiple of Scale is cut to what it is.
LEMMA TruncatedWhole ==
  ASSUME NEW n \in Int PROVE Truncated(Scale * n) = n
<1>1. Scale \in Nat \ {0}
  BY StubAssumption
<1>2. CASE n >= 0
  <2>1. Scale * n >= 0 /\ Scale * n \in Int /\ (Scale * n) \div Scale = n
    BY <1>1, <1>2
  <2>2. QED BY <2>1 DEF Truncated
<1>3. CASE n < 0
  <2>1. ~(Scale * n >= 0) /\ -(Scale * n) = Scale * (-n) /\ Scale * n \in Int
    BY <1>1, <1>3
  <2>2. (Scale * (-n)) \div Scale = -n
    BY <1>1, <1>3
  <2>3. QED BY <2>1, <2>2 DEF Truncated
<1>4. QED BY <1>2, <1>3

\* An int is read back as it was sent.
LEMMA ValueIntOfInt ==
  ASSUME NEW n \in -MaxInt - 1..MaxInt PROVE ValueInt(Number(Scale * n)) = n
<1>1. MaxInt \in Nat /\ n \in Int /\ n <= MaxInt /\ n >= -MaxInt - 1
  BY StubAssumption
<1>2. Number(Scale * n)[2] = Scale * n
  BY DEF Number
<1>3. QED BY <1>1, <1>2, TruncatedWhole DEF ValueInt

\* Wrapping stays within the ints.
LEMMA WrappedIsInt ==
  ASSUME NEW n \in Int PROVE Wrapped(n) \in -MaxInt - 1..MaxInt
<1>1. MaxInt \in Nat /\ 2 * MaxInt + 2 \in Nat \ {0}
  BY StubAssumption
<1>2. (n + MaxInt + 1) % (2 * MaxInt + 2) \in 0..(2 * MaxInt + 1)
  BY <1>1
<1>3. QED BY <1>1, <1>2 DEF Wrapped

\* Quotient and remainder, and that nothing else is the remainder.
LEMMA Division ==
  ASSUME NEW x \in Int, NEW M \in Nat \ {0}
  PROVE  /\ x \div M \in Int /\ x % M \in 0..(M - 1)
         /\ x = M * (x \div M) + (x % M)
  OBVIOUS

LEMMA Remainder ==
  ASSUME NEW q \in Int, NEW M \in Nat \ {0}, NEW r \in 0..(M - 1)
  PROVE  (M * q + r) % M = r
  OBVIOUS

\* To add a multiple of the modulus changes nothing.
LEMMA ModuloShift ==
  ASSUME NEW x \in Int, NEW k \in Int, NEW M \in Nat \ {0}
  PROVE  (x + M * k) % M = x % M
<1> DEFINE q == x \div M
           r == x % M
<1>1. q \in Int /\ r \in 0..(M - 1) /\ x = M * q + r
  BY Division
<1> HIDE DEF q, r
<1>2. x + M * k = M * (q + k) + r
  BY <1>1
<1>3. (M * (q + k) + r) % M = r
  BY <1>1, Remainder
<1>4. QED BY <1>2, <1>3 DEF r

\* Two sums that wrap one after the other are one that wraps.
LEMMA WrappedTwice ==
  ASSUME NEW x \in Int, NEW y \in Int
  PROVE  Wrapped(Wrapped(x) + y) = Wrapped(x + y)
<1> DEFINE M == 2 * MaxInt + 2
           k == (x + MaxInt + 1) \div M
<1>1. MaxInt \in Nat /\ M \in Nat \ {0} /\ x + MaxInt + 1 \in Int
  BY StubAssumption
<1>2. k \in Int /\ x + MaxInt + 1 = M * k + ((x + MaxInt + 1) % M)
  BY <1>1, Division
<1>3. (x + MaxInt + 1) % M \in Int
  BY <1>1, Division
<1>4. Wrapped(x) = ((x + MaxInt + 1) % M) - MaxInt - 1
  BY DEF Wrapped
<1>5. /\ Wrapped(Wrapped(x) + y) = ((Wrapped(x) + y + MaxInt + 1) % M) - MaxInt - 1
      /\ Wrapped(x + y) = ((x + y + MaxInt + 1) % M) - MaxInt - 1
  BY DEF Wrapped
<1> HIDE DEF M, k
<1>6. Wrapped(x) + y + MaxInt + 1 = (x + y + MaxInt + 1) + M * (-k)
  BY <1>1, <1>2, <1>3, <1>4
<1>7. ((x + y + MaxInt + 1) + M * (-k)) % M = (x + y + MaxInt + 1) % M
  <2>1. x + y + MaxInt + 1 \in Int /\ -k \in Int
    BY <1>1, <1>2
  <2>2. QED BY <1>1, <2>1, ModuloShift
<1>8. QED BY <1>5, <1>6, <1>7

-------------------------------------------------------------------------------
(* Calls *)

\* The request that carries all the arguments, and what the server answers to it.
FullRequest(m, a) == [i \in 1..Arity(m) |-> Encoded(Types[m][i], a[i])]
AnswerTo(m, a) == Handled(m, FullRequest(m, a))

\* What is known of the current call at each stage.
CallInv ==
  /\ stage \in {"idle", "asked", "answered", "returned"}
  /\ stage # "idle" => method \in Method /\ args \in Arguments(method)
  /\ stage = "asked" =>
       \E n \in Nat : request = [i \in 1..n |-> Encoded(Types[method][i], args[i])]
  /\ stage = "answered" => answer = AnswerTo(method, args)
  /\ stage = "returned" => value = Decoded(method, AnswerTo(method, args))

\* The server answers only a request that carries all the arguments.
LEMMA CallStep ==
  ASSUME CallInv, RegisterInv, [StubNext]_stubVars
  PROVE  CallInv'
<1>1. ASSUME NEW f \in File, Register(f) PROVE CallInv'
  BY <1>1 DEF Register, CallInv
<1>2. ASSUME NEW m \in Method, NEW a \in Arguments(m), Ask(m, a) PROVE CallInv'
  <2>1. CASE fault' = "none"
    <3>1. Lookup(m).count \in Nat
      <4>1. Lookup(m) # Null
        BY <1>2, <2>1 DEF Ask, Call
      <4>2. PICK i \in Hits(m) : Lookup(m) = table[i]
        BY <4>1, FirstHit DEF RegisterInv, TypeOK
      <4>3. table[i] \in Entry(Trees)
        <5>1. table \in Seq(Entry(Trees)) /\ i \in DOMAIN table
          BY DEF RegisterInv, TypeOK, Hits
        <5>2. QED BY <5>1
      <4>4. QED BY <4>2, <4>3 DEF Entry
    <3>2. /\ stage' = "asked" /\ method' = m /\ args' = a
          /\ request' = [i \in 1..Lookup(m).count |-> Encoded(Types[m][i], a[i])]
      BY <1>2, <2>1 DEF Ask, Encode
    <3>3. QED BY <3>1, <3>2 DEF CallInv
  <2>2. CASE fault' # "none"
    BY <1>2, <2>2 DEF Ask, CallInv, callVars, AnswerTo, FullRequest
  <2>3. QED BY <2>1, <2>2
<1>3. ASSUME Answer PROVE CallInv'
  <2>1. CASE fault' = "none"
    <3>1. /\ stage = "asked" /\ Len(request) = Arity(method)
          /\ answer' = Handled(method, request) /\ stage' = "answered"
          /\ UNCHANGED <<method, args, request, value>>
      BY <1>3, <2>1 DEF Answer
    <3>2. PICK n \in Nat : request = [i \in 1..n |-> Encoded(Types[method][i], args[i])]
      BY <3>1 DEF CallInv
    <3>3. n = Arity(method)
      BY <3>1, <3>2
    <3>4. request = FullRequest(method, args)
      BY <3>2, <3>3 DEF FullRequest
    <3>5. QED BY <3>1, <3>4 DEF CallInv, AnswerTo, FullRequest
  <2>2. CASE fault' # "none"
    BY <1>3, <2>2 DEF Answer, CallInv, callVars, AnswerTo, FullRequest
  <2>3. QED BY <2>1, <2>2
<1>4. ASSUME Return PROVE CallInv'
  BY <1>4 DEF Return, CallInv, AnswerTo, FullRequest
<1>5. ASSUME UNCHANGED stubVars PROVE CallInv'
  BY <1>5 DEF stubVars, callVars, CallInv, AnswerTo, FullRequest
<1>6. QED BY <1>1, <1>2, <1>3, <1>4, <1>5 DEF StubNext

\* The handler of a method on ints computes with the ints of the call.
LEMMA IntRequest ==
  ASSUME NEW m \in {"add", "sum"}, NEW a \in Arguments(m), NEW i \in 1..Arity(m)
  PROVE  a[i] \in Int /\ ValueInt(FullRequest(m, a)[i]) = a[i]
<1>1. Types[m] \in {<<"int", "int">>, <<"int", "int", "int">>} /\ Rettype[m] = "int"
  BY DEF Types, Rettype
<1>2. a \in [1..Arity(m) -> Ints]
  BY <1>1 DEF Arguments
<1>3. a[i] \in -MaxInt - 1..MaxInt /\ a[i] \in Int
  <2>1. a[i] \in Ints
    BY <1>2
  <2>2. Ints \subseteq -MaxInt - 1..MaxInt /\ MaxInt \in Nat
    BY StubAssumption
  <2>3. a[i] \in -MaxInt - 1..MaxInt
    BY <2>1, <2>2, Zenon
  <2>4. \A n \in -MaxInt - 1..MaxInt : n \in Int
    BY <2>2
  <2>5. QED BY <2>3, <2>4, Zenon
<1>4. Types[m][i] = "int"
  BY <1>1 DEF Arity
<1>5. FullRequest(m, a)[i] = Number(Scale * a[i])
  BY <1>4 DEF FullRequest, Encoded
<1>6. QED BY <1>3, <1>5, ValueIntOfInt

\* That of one on doubles computes with those that are whole and fit an int.
LEMMA DoubleRequest ==
  ASSUME NEW m \in {"sub", "mul"}, NEW a \in Arguments(m), Whole(a), NEW i \in 1..2
  PROVE  \E n \in Int : a[i] = Scale * n /\ ValueInt(FullRequest(m, a)[i]) = n
<1>1. Types[m] = <<"double", "double">> /\ Rettype[m] = "double" /\ Arity(m) = 2
  BY DEF Types, Rettype, Arity
<1>2. a \in [1..2 -> Doubles]
  BY <1>1 DEF Arguments
<1>3. a[i] \in Int /\ a[i] % Scale = 0 /\ Truncated(a[i]) \in -MaxInt - 1..MaxInt
  BY <1>2, StubAssumption DEF Whole
<1>4. PICK n \in Int : a[i] = Scale * n
  <2>1. Scale \in Nat \ {0}
    BY StubAssumption
  <2>2. a[i] \div Scale \in Int /\ a[i] = Scale * (a[i] \div Scale) + (a[i] % Scale)
    BY <1>3, <2>1, Division
  <2>3. a[i] = Scale * (a[i] \div Scale)
    BY <1>3, <2>1, <2>2
  <2>4. QED BY <2>2, <2>3
<1>5. n \in -MaxInt - 1..MaxInt
  BY <1>3, <1>4, TruncatedWhole
<1>6. FullRequest(m, a)[i] = Number(Scale * n)
  BY <1>1, <1>4 DEF FullRequest, Encoded
<1>7. QED BY <1>4, <1>5, <1>6, ValueIntOfInt

\* What the stub makes of the answer to the request.
LEMMA NumberReturned ==
  ASSUME CallInv, stage = "returned"
  PROVE  NumbersTransparent
<1> DEFINE v(i) == ValueInt(FullRequest(method, args)[i])
<1>1. args \in Arguments(method) /\ value = Decoded(method, AnswerTo(method, args))
  BY DEF CallInv
<1>2. Scale \in Nat \ {0} /\ MaxInt \in Nat
  BY StubAssumption
<1>3. CASE method = "add"
  <2>1. v(1) = args[1] /\ v(2) = args[2] /\ args[1] \in Int /\ args[2] \in Int
    <3>1. Arity(method) = 2
      BY <1>3 DEF Arity, Types
    <3>2. QED BY <1>1, <1>3, <3>1, IntRequest
  <2>2. AnswerTo(method, args) = Number(Scale * Wrapped(v(1) + v(2)))
    BY <1>3 DEF AnswerTo, Handled
  <2>3. Wrapped(args[1] + args[2]) \in Int
    BY <2>1, <1>2, WrappedIsInt
  <2>4. value = Truncated(Scale * Wrapped(args[1] + args[2]))
    BY <1>1, <1>3, <2>1, <2>2 DEF Decoded, Rettype, Number
  <2>5. value = Wrapped(args[1] + args[2])
    BY <2>3, <2>4, TruncatedWhole
  <2>6. QED BY <1>3, <2>5 DEF NumbersTransparent
<1>4. CASE method = "sum"
  <2>1. /\ v(1) = args[1] /\ v(2) = args[2] /\ v(3) = args[3]
        /\ args[1] \in Int /\ args[2] \in Int /\ args[3] \in Int
    <3>1. Arity(method) = 3
      BY <1>4 DEF Arity, Types
    <3>2. QED BY <1>1, <1>4, <3>1, IntRequest
  <2>2. AnswerTo(method, args) = Number(Scale * Wrapped(Wrapped(v(1) + v(2)) + v(3)))
    BY <1>4 DEF AnswerTo, Handled
  <2>3. Wrapped(Wrapped(args[1] + args[2]) + args[3]) = Wrapped(args[1] + args[2] + args[3])
    <3>1. args[1] + args[2] \in Int
      BY <2>1
    <3>2. QED BY <2>1, <3>1, WrappedTwice, Zenon
  <2>4. Wrapped(args[1] + args[2] + args[3]) \in Int
    BY <2>1, <1>2, WrappedIsInt
  <2>5. value = Truncated(Scale * Wrapped(args[1] + args[2] + args[3]))
    BY <1>1, <1>4, <2>1, <2>2, <2>3 DEF Decoded, Rettype, Number
  <2>6. value = Wrapped(args[1] + args[2] + args[3])
    BY <2>4, <2>5, TruncatedWhole
  <2>7. QED BY <1>4, <2>6 DEF NumbersTransparent
<1>5. CASE method \in {"sub", "mul"} /\ Whole(args)
  <2>1. PICK x \in Int, y \in Int : /\ args[1] = Scale * x /\ v(1) = x
                                   /\ args[2] = Scale * y /\ v(2) = y
    BY <1>1, <1>5, DoubleRequest
  <2>2. CASE method = "sub"
    <3>1. AnswerTo(method, args) = Number(Scale * (v(1) - v(2)))
      BY <2>2 DEF AnswerTo, Handled
    <3>2. value = Scale * (x - y)
      BY <1>1, <2>1, <2>2, <3>1 DEF Decoded, Rettype, Number
    <3>3. value = args[1] - args[2]
      BY <1>2, <2>1, <3>2
    <3>4. QED BY <2>2, <3>3 DEF NumbersTransparent
  <2>3. CASE method = "mul"
    <3>1. AnswerTo(method, args) = Number(Scale * (v(1) * v(2)))
      BY <2>3 DEF AnswerTo, Handled
    <3>2. value = Scale * (x * y)
      BY <1>1, <2>1, <2>3, <3>1 DEF Decoded, Rettype, Number
    <3>3. Scale * value = args[1] * args[2]
      BY <1>2, <2>1, <3>2
    <3>4. QED BY <2>3, <3>3 DEF NumbersTransparent
  <2>4. QED BY <1>5, <2>2, <2>3
<1>6. CASE method \notin {"add", "sum"} /\ ~(method \in {"sub", "mul"} /\ Whole(args))
  BY <1>6 DEF NumbersTransparent
<1>7. QED BY <1>3, <1>4, <1>5, <1>6

\* A call of a method on numbers returns what the method returns when it is called
\* here, for every range of int and whatever was registered before: for all ints,
\* and for the doubles that are whole and fit an int.
THEOREM CallsTransparent == StubSpec => []NumbersTransparent
<1>1. StubInit => CallInv
  BY DEF StubInit, CallInv
<1>2. CallInv /\ RegisterInv /\ [StubNext]_stubVars => CallInv'
  BY CallStep
<1>3. CallInv => NumbersTransparent
  BY NumberReturned DEF CallInv, NumbersTransparent
<1>4. StubSpec => []RegisterInv
  BY StubImplementsRegister, RegisterInvHolds, PTL
<1>5. QED BY <1>1, <1>2, <1>3, <1>4, PTL DEF StubSpec

-------------------------------------------------------------------------------
(* Strings *)

\* Two characters changed for each other, as the loop of rpc_sayhello does.
Swapped(s, i, length) == [s EXCEPT ![i] = s[length - i + 1], ![length - i + 1] = s[i]]

\* The message after i rounds: i characters from both ends of its first length
\* are reversed.
Rounds(msg, length, i) ==
  [k \in DOMAIN msg |-> IF k <= i \/ (length - i < k /\ k <= length)
                        THEN msg[length + 1 - k] ELSE msg[k]]

\* No round yet.
LEMMA RoundsStart ==
  ASSUME NEW S, NEW msg \in Seq(S), NEW length \in 0..Len(msg)
  PROVE  Rounds(msg, length, 0) = msg
<1> DEFINE n == Len(msg)
<1>1. n \in Nat /\ DOMAIN msg = 1..n /\ msg = [k \in 1..n |-> msg[k]] /\ length \in 0..n
  OBVIOUS
<1> HIDE DEF n
<1>2. \A k \in 1..n : ~(k <= 0 \/ (length - 0 < k /\ k <= length))
  BY <1>1
<1>3. [k \in 1..n |-> IF k <= 0 \/ (length - 0 < k /\ k <= length)
                      THEN msg[length + 1 - k] ELSE msg[k]] = [k \in 1..n |-> msg[k]]
  BY <1>2
<1>4. QED BY <1>1, <1>3 DEF Rounds

\* One round more.
LEMMA RoundsStep ==
  ASSUME NEW S, NEW msg \in Seq(S), NEW length \in 0..Len(msg),
         NEW i \in 1..Swaps(length)
  PROVE  Rounds(msg, length, i) = Swapped(Rounds(msg, length, i - 1), i, length)
<1> DEFINE n == Len(msg)
           r == Rounds(msg, length, i - 1)
           j == length - i + 1
<1>1. n \in Nat /\ DOMAIN msg = 1..n /\ length \in 0..n
  OBVIOUS
<1>2. DOMAIN r = 1..n /\ DOMAIN Rounds(msg, length, i) = 1..n
  BY <1>1 DEF Rounds
<1> HIDE DEF n
<1>3. i \in 1..n /\ j \in 1..n /\ i < j /\ 2 * i <= length
  BY <1>1 DEF Swaps
<1>4. r[i] = msg[i] /\ r[j] = msg[j]
  BY <1>1, <1>3 DEF Rounds
<1>5. DOMAIN Swapped(r, i, length) = 1..n
  BY <1>2 DEF Swapped
<1>6. ASSUME NEW k \in 1..n PROVE Rounds(msg, length, i)[k] = Swapped(r, i, length)[k]
  <2>1. CASE k = i
    <3>1. Swapped(r, i, length)[k] = r[j]
      BY <1>2, <1>3, <2>1 DEF Swapped
    <3>2. Rounds(msg, length, i)[k] = msg[length + 1 - k]
      BY <1>1, <2>1 DEF Rounds
    <3>3. length + 1 - k = j
      BY <1>1, <1>3, <2>1
    <3>4. QED BY <1>4, <3>1, <3>2, <3>3
  <2>2. CASE k = j
    <3>1. Swapped(r, i, length)[k] = r[i]
      BY <1>2, <1>3, <2>2 DEF Swapped
    <3>2. Rounds(msg, length, i)[k] = msg[length + 1 - k]
      BY <1>1, <1>3, <2>2 DEF Rounds
    <3>3. length + 1 - k = i
      BY <1>1, <1>3, <2>2
    <3>4. QED BY <1>4, <3>1, <3>2, <3>3
  <2>3. CASE k # i /\ k # j
    <3>1. Swapped(r, i, length)[k] = r[k]
      BY <1>2, <1>3, <2>3 DEF Swapped
    <3>2. k <= i \/ (length - i < k /\ k <= length)
            <=> k <= i - 1 \/ (length - (i - 1) < k /\ k <= length)
      BY <1>1, <1>3, <2>3
    <3>3. Rounds(msg, length, i)[k] = r[k]
      BY <1>1, <3>2 DEF Rounds
    <3>4. QED BY <3>1, <3>3
  <2>4. QED BY <2>1, <2>2, <2>3
<1>7. Swapped(r, i, length) = [k \in 1..n |-> Swapped(r, i, length)[k]]
  BY <1>2 DEF Swapped
<1>8. Rounds(msg, length, i) = [k \in 1..n |-> Rounds(msg, length, i)[k]]
  BY <1>1 DEF Rounds
<1>9. QED BY <1>6, <1>7, <1>8

\* The loop of rpc_sayhello reverses the first length characters.
LEMMA SayHelloReverses ==
  ASSUME NEW S, NEW msg \in Seq(S), NEW length \in 0..Len(msg)
  PROVE  SayHello(msg, length)
           = [k \in DOMAIN msg |-> IF k > length THEN msg[k] ELSE msg[length + 1 - k]]
<1> DEFINE n == Swaps(length)
           Loop(f) == [i \in 0..n |-> IF i = 0 THEN msg ELSE Swapped(f[i - 1], i, length)]
           h == [i \in 0..n |-> Rounds(msg, length, i)]
           g == CHOOSE f : f = Loop(f)
<1>1. n \in Nat /\ 2 * n <= length /\ length <= 2 * n + 1 /\ length \in Nat
  BY DEF Swaps
<1>2. SayHello(msg, length) = g[n]
  BY DEF SayHello, Swapped
<1> HIDE DEF n
<1>3. h = Loop(h)
  <2>1. ASSUME NEW i \in 0..n
        PROVE  Rounds(msg, length, i)
                 = IF i = 0 THEN msg ELSE Swapped(h[i - 1], i, length)
    <3>1. CASE i = 0
      BY <3>1, RoundsStart
    <3>2. CASE i # 0
      <4>1. i \in 1..Swaps(length) /\ i - 1 \in 0..n
        BY <1>1, <3>2 DEF n
      <4>2. h[i - 1] = Rounds(msg, length, i - 1)
        BY <4>1
      <4>3. QED BY <3>2, <4>1, <4>2, RoundsStep
    <3>3. QED BY <3>1, <3>2
  <2>2. QED BY <2>1
<1>4. g = Loop(g)
  <2> HIDE DEF h
  <2>1. \E f : f = Loop(f)
    BY <1>3
  <2> HIDE DEF Loop
  <2>2. QED BY <2>1
<1>5. g[n] = Rounds(msg, length, n)
  <2> HIDE DEF g
  <2> DEFINE T == {i \in 0..n : g[i] # Rounds(msg, length, i)}
  <2>1. ASSUME T # {} PROVE FALSE
    <3>1. T \subseteq Nat
      OBVIOUS
    <3>2. PICK i \in T : \A k \in T : i <= k
      <4> HIDE DEF T
      <4>1. QED BY <2>1, <3>1, Least
    <3>3. i \in 0..n /\ g[i] = IF i = 0 THEN msg ELSE Swapped(g[i - 1], i, length)
      BY <1>4
    <3>4. i # 0
      BY <3>2, <3>3, RoundsStart
    <3>5. i \in 1..n /\ i - 1 \in 0..n /\ ~(i <= i - 1)
      BY <1>1, <3>3, <3>4
    <3>6. g[i - 1] = Rounds(msg, length, i - 1)
      BY <3>2, <3>5
    <3>7. g[i] = Rounds(msg, length, i)
      BY <3>3, <3>4, <3>5, <3>6, RoundsStep DEF n
    <3>8. QED BY <3>2, <3>7
  <2>2. QED BY <1>1, <2>1
<1>6. ASSUME NEW k \in DOMAIN msg
      PROVE  (IF k <= n \/ (length - n < k /\ k <= length) THEN msg[length + 1 - k] ELSE msg[k])
               = IF k > length THEN msg[k] ELSE msg[length + 1 - k]
  <2>1. k \in Nat /\ k >= 1
    OBVIOUS
  <2>2. CASE k <= n \/ (length - n < k /\ k <= length)
    BY <1>1, <2>1, <2>2
  <2>3. CASE ~(k <= n \/ (length - n < k /\ k <= length)) /\ k <= length
    <3>1. length + 1 - k = k
      BY <1>1, <2>1, <2>3
    <3>2. QED BY <2>3, <3>1
  <2>4. CASE k > length
    BY <1>1, <2>1, <2>4
  <2>5. QED BY <1>1, <2>1, <2>2, <2>3, <2>4
<1>7. QED
  <2> HIDE DEF g
  <2>1. QED BY <1>2, <1>5, <1>6 DEF Rounds

\* The handler of a method on strings works on the message and the length of the call.
LEMMA StringRequest ==
  ASSUME NEW m \in Method, Rettype[m] = "char*", NEW a \in Arguments(m)
  PROVE  /\ a[1] \in Messages /\ a[2] \in 0..Len(a[1])
         /\ FullRequest(m, a)[1] = Text(a[1])
         /\ ValueInt(FullRequest(m, a)[2]) = a[2]
<1>1. m \in {"sayhello", "echo"}
  BY StubAssumption DEF Types, Rettype
<1>2. Types[m] = <<"char*", "int">> /\ Arity(m) = 2
  BY <1>1 DEF Types, Arity
<1>3. PICK s \in Messages : \E n \in 0..Len(s) : a = <<s, n>>
  BY DEF Arguments
<1>4. PICK n \in 0..Len(s) : a = <<s, n>>
  BY <1>3
<1>5. n \in -MaxInt - 1..MaxInt
  <2> DEFINE length == Len(s)
  <2>1. MaxInt \in Nat /\ length <= MaxInt
    BY StubAssumption
  <2>2. length \in Nat /\ n \in 0..length
    <3>1. s \in Seq({s[i] : i \in DOMAIN s})
      BY StubAssumption
    <3>2. QED BY <3>1
  <2> HIDE DEF length
  <2>3. QED BY <2>1, <2>2
<1>6. FullRequest(m, a)[1] = Text(s) /\ FullRequest(m, a)[2] = Number(Scale * n)
  BY <1>2, <1>4 DEF FullRequest, Encoded
<1>7. a[1] = s /\ a[2] = n /\ ValueInt(Number(Scale * n)) = n
  BY <1>4, <1>5, ValueIntOfInt
<1>8. QED BY <1>4, <1>6, <1>7, Zenon

\* What the stub makes of the answer to the request.
LEMMA StringReturned ==
  ASSUME CallInv, stage = "returned", Rettype[method] = "char*"
  PROVE  StringsComeQuoted
<1> DEFINE s == args[1]
           n == args[2]
           p == FullRequest(method, args)
           called == [i \in DOMAIN s |-> IF i > n THEN s[i]
                                         ELSE IF method = "sayhello" THEN s[n + 1 - i]
                                         ELSE OtherCase(s[i])]
<1>1. /\ method \in Method /\ args \in Arguments(method)
      /\ value = Decoded(method, AnswerTo(method, args))
  BY DEF CallInv
<1>2. s \in Messages /\ n \in 0..Len(s) /\ p[1][2] = s /\ ValueInt(p[2]) = n
  BY <1>1, StringRequest DEF Text
<1>3. s \in Seq({s[i] : i \in DOMAIN s})
  BY <1>2, StubAssumption
<1> HIDE DEF p
<1>4. CASE method = "sayhello"
  <2>1. AnswerTo(method, args) = Text(SayHello(s, n))
    BY <1>2, <1>4 DEF AnswerTo, Handled, p
  <2>2. SayHello(s, n) = [i \in DOMAIN s |-> IF i > n THEN s[i] ELSE s[n + 1 - i]]
    <3> HIDE DEF s, n
    <3>1. QED BY <1>2, <1>3, SayHelloReverses
  <2>3. SayHello(s, n) = called
    BY <1>4, <2>2
  <2>4. QED BY <1>1, <2>1, <2>3 DEF Decoded, Text, StringsComeQuoted
<1>5. CASE method = "echo"
  <2>1. AnswerTo(method, args) = Text(Echo(s, n))
    BY <1>2, <1>5 DEF AnswerTo, Handled, p
  <2>2. Echo(s, n) = called
    BY <1>2, <1>3, <1>5 DEF Echo
  <2>3. QED BY <1>1, <2>1, <2>2 DEF Decoded, Text, StringsComeQuoted
<1>6. method \in {"sayhello", "echo"}
  BY <1>1, StubAssumption DEF Types, Rettype
<1>7. QED BY <1>4, <1>5, <1>6

\* A call of a method on strings returns, in quotes and escaped, the first length
\* characters of the message reversed or with their case exchanged and the rest as
\* they were, for messages of any length an int holds.
THEOREM StringsQuoted == StubSpec => []StringsComeQuoted
<1>1. StubInit => CallInv
  BY DEF StubInit, CallInv
<1>2. CallInv /\ RegisterInv /\ [StubNext]_stubVars => CallInv'
  BY CallStep
<1>3. CallInv => StringsComeQuoted
  BY StringReturned DEF StringsComeQuoted
<1>4. StubSpec => []RegisterInv
  BY StubImplementsRegister, RegisterInvHolds, PTL
<1>5. QED BY <1>1, <1>2, <1>3, <1>4, PTL DEF StubSpec

===============================================================================
