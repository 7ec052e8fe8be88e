------------------------- MODULE VirtualCallsProofs -------------------------
(***************************************************************************)
(* Every call reaches the nearest implementation above its object's class,  *)
(* for any number of threads, any finite number of classes and however they *)
(* inherit.                                                                *)
(***************************************************************************)
EXTENDS VirtualCalls, Inductions

(* Climbing is well defined: it begins at the class of the object, and goes *)
(* on to the parent of a class that has no such method.                    *)
LEMMA Climbing ==
  ASSUME NEW program, ClassesNamed(program), NEW id, NEW sig
  PROVE  LET N == Cardinality(DOMAIN program.classes)
             climb == Climbed(program, id, sig)
         IN  /\ N \in Nat
             /\ climb[0] = id
             /\ \A n \in 1 .. N :
                  climb[n] = IF Implements(program, climb[n - 1], sig) THEN climb[n - 1]
                             ELSE GetClass(program, climb[n - 1]).pid
<1> DEFINE ids == DOMAIN program.classes
           N == Cardinality(ids)
           up(x) == IF Implements(program, x, sig) THEN x ELSE GetClass(program, x).pid
           V == {id, -1} \cup ids \cup {program.classes[x].pid : x \in ids}
           step == [p \in V \X (1 .. N) |-> up(p[1])]
<1>1. N \in Nat
  BY FS_CardinalityType DEF ClassesNamed
<1>2. \A x \in V : up(x) \in V
  BY DEF GetClass
<1> HIDE DEF up, V, N
<1>3. id \in V
  BY DEF V
<1>4. step \in [V \X (1 .. N) -> V]
  BY <1>2
<1>5. PICK g \in [0 .. N -> V] : g[0] = id /\ \A i \in 1 .. N : g[i] = step[<<g[i - 1], i>>]
  <2> DEFINE c == id
             m == N
  <2>1. m \in Nat /\ c \in V /\ step \in [V \X (1 .. m) -> V]
    BY <1>1, <1>3, <1>4
  <2> HIDE DEF step, c, m, ids
  <2>2. \E g \in [0 .. m -> V] : g[0] = c /\ \A i \in 1 .. m : g[i] = step[<<g[i - 1], i>>]
    BY ONLY <2>1, Recursion
  <2> QED
    BY <2>2 DEF c, m
<1>6. \A i \in 1 .. N : g[i - 1] \in V /\ g[i] = up(g[i - 1])
  <2> SUFFICES ASSUME NEW i \in 1 .. N PROVE g[i - 1] \in V /\ g[i] = up(g[i - 1])
    OBVIOUS
  <2>1. i - 1 \in 0 .. N
    BY <1>1
  <2>2. g[i - 1] \in V
    BY <1>5, <2>1
  <2>3. <<g[i - 1], i>> \in V \X (1 .. N)
    BY <2>2
  <2> QED
    BY <1>5, <2>2, <2>3
<1>7. g = [n \in 0 .. N |-> IF n = 0 THEN id ELSE up(g[n - 1])]
  <2>1. \A n \in 0 .. N : g[n] = IF n = 0 THEN id ELSE up(g[n - 1])
    BY <1>1, <1>5, <1>6
  <2> QED
    BY <1>5, <2>1
<1> DEFINE climb == Climbed(program, id, sig)
<1>8. climb = [n \in 0 .. N |-> IF n = 0 THEN id ELSE up(climb[n - 1])]
  <2>1. climb = CHOOSE f : f = [n \in 0 .. N |-> IF n = 0 THEN id ELSE up(f[n - 1])]
    BY Zenon DEF Climbed, up, N
  <2> HIDE DEF climb
  <2> QED
    BY <1>7, <2>1, Zenon
<1> HIDE DEF climb
<1>9. climb[0] = id
  BY <1>1, <1>8
<1>10. \A n \in 1 .. N : climb[n] = up(climb[n - 1])
  BY <1>1, <1>8
<1> QED
  BY <1>1, <1>9, <1>10, Zenon DEF climb, up, N

(* A climb stops at the first class that has the method ... *)
LEMMA ClimbingStops ==
  ASSUME NEW program, ClassesNamed(program), NEW id, NEW sig,
         NEW k \in 0 .. Cardinality(DOMAIN program.classes),
         Implements(program, Climbed(program, id, sig)[k], sig)
  PROVE  Nearest(program, id, sig) = Climbed(program, id, sig)[k]
<1> DEFINE N == Cardinality(DOMAIN program.classes)
           climb == Climbed(program, id, sig)
           H == {i \in 0 .. N - k : climb[k + i] = climb[k]}
<1>1. N \in Nat /\ \A n \in 1 .. N : climb[n] = IF Implements(program, climb[n - 1], sig) THEN climb[n - 1]
                                               ELSE GetClass(program, climb[n - 1]).pid
  BY Climbing
<1> HIDE DEF N, climb
<1>2. k \in 0 .. N /\ Implements(program, climb[k], sig)
  BY DEF N, climb
<1>3. N - k \in Nat
  BY <1>1, <1>2
<1>4. 0 \in H
  BY <1>1, <1>2
<1>5. ASSUME NEW i \in 1 .. N - k, i - 1 \in H PROVE i \in H
  <2>1. k + i \in 1 .. N /\ (k + i) - 1 = k + (i - 1)
    BY <1>1, <1>2
  <2>2. climb[k + i] = climb[k]
    BY <1>1, <1>2, <1>5, <2>1
  <2> QED
    BY <2>2
<1> HIDE DEF H
<1>6. H \in SUBSET (0 .. N - k)
  BY DEF H
<1>7. H = 0 .. N - k
  BY ONLY <1>3, <1>4, <1>5, <1>6, UpTo
<1>8. N - k \in 0 .. N - k /\ k + (N - k) = N
  BY <1>1, <1>2
<1>9. climb[N] = climb[k]
  BY <1>7, <1>8 DEF H
<1> QED
  BY <1>9 DEF Nearest, N, climb

(* ... and one that leaves the classes finds none. *)
LEMMA ClimbingEnds ==
  ASSUME NEW program, ClassesNamed(program), NEW id, NEW sig,
         NEW k \in 0 .. Cardinality(DOMAIN program.classes),
         Climbed(program, id, sig)[k] \notin DOMAIN program.classes
  PROVE  ~Implements(program, Nearest(program, id, sig), sig)
<1> DEFINE N == Cardinality(DOMAIN program.classes)
           climb == Climbed(program, id, sig)
           H == {i \in 0 .. N - k : climb[k + i] \notin DOMAIN program.classes}
<1>0. \A x : x \notin DOMAIN program.classes => ~Implements(program, x, sig) /\ GetClass(program, x).pid \notin DOMAIN program.classes
  <2> SUFFICES ASSUME NEW x, x \notin DOMAIN program.classes
               PROVE  ~Implements(program, x, sig) /\ GetClass(program, x).pid \notin DOMAIN program.classes
    OBVIOUS
  <2>1. GetClass(program, x) = [name |-> "", pid |-> -1, infs |-> <<>>, mthds |-> <<>>]
    BY DEF GetClass
  <2>2. MethodNamed(GetClass(program, x), sig) = {} /\ GetClass(program, x).pid = -1
    <3>1. GetClass(program, x).mthds = <<>> /\ GetClass(program, x).pid = -1
      BY DEF GetClass
    <3>2. DOMAIN GetClass(program, x).mthds = {}
      BY <3>1
    <3> QED
      BY <3>1, <3>2 DEF MethodNamed
  <2>3. -1 \notin DOMAIN program.classes
    BY DEF ClassesNamed
  <2> QED
    BY <2>1, <2>2, <2>3 DEF Implements
<1>1. N \in Nat /\ \A n \in 1 .. N : climb[n] = IF Implements(program, climb[n - 1], sig) THEN climb[n - 1]
                                               ELSE GetClass(program, climb[n - 1]).pid
  BY Climbing
<1> HIDE DEF N, climb
<1>2. k \in 0 .. N /\ climb[k] \notin DOMAIN program.classes
  BY DEF N, climb
<1>3. N - k \in Nat
  BY <1>1, <1>2
<1>4. 0 \in H
  BY <1>1, <1>2
<1>5. ASSUME NEW i \in 1 .. N - k, i - 1 \in H PROVE i \in H
  <2>1. k + i \in 1 .. N /\ (k + i) - 1 = k + (i - 1)
    BY <1>1, <1>2
  <2>2. climb[k + i] \notin DOMAIN program.classes
    BY <1>0, <1>1, <1>5, <2>1
  <2> QED
    BY <2>2
<1> HIDE DEF H
<1>6. H \in SUBSET (0 .. N - k)
  BY DEF H
<1>7. H = 0 .. N - k
  BY ONLY <1>3, <1>4, <1>5, <1>6, UpTo
<1>8. N - k \in 0 .. N - k /\ k + (N - k) = N
  BY <1>1, <1>2
<1>9. climb[N] \notin DOMAIN program.classes
  BY <1>7, <1>8 DEF H
<1> QED
  BY <1>0, <1>9 DEF Nearest, N, climb

-----------------------------------------------------------------------------
(* What holds between the steps.  A thread that looks or climbs stands on   *)
(* the way from its object's class to the implementation; every entry of    *)
(* the cache is under the name of the class whose method it is.            *)
Record(thread) ==
  thread = [at |-> thread.at, left |-> thread.left, object |-> thread.object, called |-> thread.called,
            impl |-> thread.impl, found |-> thread.found]

OnTheWay(program, thread) ==
  \E k \in 0 .. Cardinality(DOMAIN program.classes) :
    thread.impl = Climbed(program, thread.object, SignatureOf(program, thread.called))[k]

FoundNearest(program, thread) ==
  LET sig == SignatureOf(program, thread.called)
  IN  /\ thread.found[1] = Nearest(program, thread.object, sig)
      /\ thread.found[2] \in MethodNamed(GetClass(program, thread.found[1]), sig)

ThreadOK(program, thread) ==
  /\ Record(thread)
  /\ thread.at \in {"idle", "look", "climb", "add", "bound"}
  /\ thread.at # "idle" => Legal(program, <<thread.object, thread.called>>)
  /\ thread.at \in {"look", "climb", "add"} => VirtualMethod(program, thread.called)
  /\ thread.at = "look" => thread.impl = thread.object
  /\ thread.at = "climb" => OnTheWay(program, thread)
  /\ thread.at = "add" => FoundNearest(program, thread) /\ thread.found[1] = thread.impl
  /\ thread.at = "bound" =>
       IF VirtualMethod(program, thread.called) THEN FoundNearest(program, thread) ELSE thread.found = thread.called

EntryOK(program, key, entry) ==
  /\ entry[1] \in DOMAIN program.classes
  /\ key = <<program.classes[entry[1]].name, key[2]>>
  /\ entry[2] \in MethodNamed(program.classes[entry[1]], key[2])

Binds ==
  /\ threads = [t \in Threads |-> threads[t]]
  /\ IF Loaded THEN ClassesNamed(image) ELSE virtual_cache = <<>> /\ \A t \in Threads : threads[t].at = "idle"
  /\ \A t \in Threads : ThreadOK(image, threads[t])
  /\ \A key \in DOMAIN virtual_cache : EntryOK(image, key, virtual_cache[key])

LEMMA Becomes ==
  ASSUME NEW thread, Record(thread), NEW at, NEW found
  PROVE  [thread EXCEPT !.at = at, !.found = found] =
           [at |-> at, left |-> thread.left, object |-> thread.object, called |-> thread.called, impl |-> thread.impl,
            found |-> found]
<1> DEFINE first == [thread EXCEPT !.at = at]
<1>1. first = [at |-> at, left |-> thread.left, object |-> thread.object, called |-> thread.called, impl |-> thread.impl,
               found |-> thread.found]
  BY DEF Record
<1>2. [thread EXCEPT !.at = at, !.found = found] = [first EXCEPT !.found = found]
  OBVIOUS
<1> HIDE DEF first
<1> QED
  BY <1>1, <1>2

LEMMA IdleOK ==
  ASSUME NEW program, NEW left
  PROVE  ThreadOK(program, Idle(left))
BY DEF ThreadOK, Record, Idle

LEMMA BindsInit == CallInit => Binds
<1> SUFFICES ASSUME CallInit PROVE Binds
  OBVIOUS
<1>1. \A t \in Threads : threads[t] = Idle(CallBound[t])
  BY DEF CallInit
<1>2. \A t \in Threads : ThreadOK(image, threads[t])
  BY <1>1, IdleOK
<1>3. \A t \in Threads : threads[t].at = "idle"
  <2>1. \A left : Idle(left).at = "idle"
    BY DEF Idle
  <2> QED
    BY <1>1, <2>1
<1>4. virtual_cache = <<>> /\ DOMAIN virtual_cache = {}
  BY DEF CallInit
<1> QED
  BY <1>2, <1>3, <1>4 DEF CallInit, Binds

(* A step of one thread leaves the others, and the cache unless it adds. *)
LEMMA ThreadStep ==
  ASSUME Binds, Loaded, UNCHANGED image, NEW t \in Threads, NEW thread,
         threads' = [threads EXCEPT ![t] = thread], ThreadOK(image, thread),
         \A key \in DOMAIN virtual_cache' : EntryOK(image, key, virtual_cache'[key])
  PROVE  Binds'
<1>1. \A u \in Threads : threads'[u] = IF u = t THEN thread ELSE threads[u]
  BY DEF Binds
<1>2. threads' = [u \in Threads |-> threads'[u]]
  BY DEF Binds
<1>3. \A u \in Threads : ThreadOK(image, threads'[u])
  BY <1>1 DEF Binds
<1>4. Loaded' /\ ClassesNamed(image)
  BY DEF Binds, Loaded
<1> QED
  BY <1>2, <1>3, <1>4 DEF Binds

LEMMA Loads == Binds /\ LoadClasses => Binds'
<1> SUFFICES ASSUME Binds, LoadClasses PROVE Binds'
  OBVIOUS
<1>1. virtual_cache' = <<>> /\ \A t \in Threads : threads'[t].at = "idle" /\ Record(threads'[t])
  BY DEF Binds, LoadClasses, ThreadOK
<1>2. \A t \in Threads : ThreadOK(image', threads'[t])
  BY <1>1 DEF ThreadOK
<1>3. DOMAIN virtual_cache' = {}
  BY <1>1
<1> QED
  BY <1>1, <1>2, <1>3 DEF Binds, LoadClasses

LEMMA Calls ==
  ASSUME Binds, Loaded, NEW t \in Threads, NEW object, NEW c, NEW m,
         Legal(image, <<object, <<c, m>>>>), ProcessMethodCall(t, <<object, <<c, m>>>>)
  PROVE  Binds'
<1> DEFINE called == <<c, m>>
           thread == [at |-> IF VirtualMethod(image, called) THEN "look" ELSE "bound",
                      left |-> threads[t].left - 1, object |-> object, called |-> called,
                      impl |-> object, found |-> called]
<1>1. threads' = [threads EXCEPT ![t] = thread] /\ UNCHANGED <<image, virtual_cache>>
  BY DEF ProcessMethodCall, Binds
<1>2. ThreadOK(image, thread)
  <2> HIDE DEF called
  <2>1. Legal(image, <<object, called>>)
    BY DEF called
  <2> QED
    BY <2>1 DEF ThreadOK, Record
<1> HIDE DEF thread
<1> QED
  BY <1>1, <1>2, ThreadStep DEF Binds

LEMMA Looks ==
  ASSUME Binds, Loaded, NEW t \in Threads, GetVirtualEntry(t)
  PROVE  Binds'
<1> DEFINE old == threads[t]
           sig == SignatureOf(image, old.called)
           hit == [old EXCEPT !.at = "bound", !.found = virtual_cache[Key(t)]]
           miss == [old EXCEPT !.at = "climb"]
<1>1. /\ UNCHANGED <<image, virtual_cache>> /\ ClassesNamed(image)
      /\ threads' = [threads EXCEPT ![t] = IF Key(t) \in DOMAIN virtual_cache THEN hit ELSE miss]
  BY DEF GetVirtualEntry, Binds
<1>2. /\ Record(old) /\ Legal(image, <<old.object, old.called>>) /\ VirtualMethod(image, old.called)
      /\ old.impl = old.object
  BY DEF GetVirtualEntry, Binds, ThreadOK
<1>3. Climbed(image, old.object, sig)[0] = old.object /\ 0 \in 0 .. Cardinality(DOMAIN image.classes)
  BY <1>1, Climbing
<1>4. ASSUME Key(t) \in DOMAIN virtual_cache PROVE ThreadOK(image, hit)
  <2> DEFINE entry == virtual_cache[Key(t)]
  <2>1. EntryOK(image, Key(t), entry)
    BY <1>4 DEF Binds
  <2>2. Key(t) = <<image.classes[old.object].name, sig>> /\ old.object \in DOMAIN image.classes
    BY <1>2 DEF Key, Legal
  <2>3. entry[1] = old.object /\ entry[2] \in MethodNamed(image.classes[old.object], sig)
    <3> DEFINE name(c) == image.classes[c].name
    <3>1. PICK e, n, k : e = entry /\ n = name(old.object) /\ k = Key(t)
      OBVIOUS
    <3> HIDE DEF entry
    <3>2. k = <<n, sig>> /\ k[2] = sig
      BY <2>2, <3>1
    <3>3. e[1] \in DOMAIN image.classes /\ k = <<name(e[1]), k[2]>> /\ e[2] \in MethodNamed(image.classes[e[1]], k[2])
      BY <2>1, <3>1 DEF EntryOK
    <3> HIDE DEF name, sig
    <3>4. name(e[1]) = name(old.object)
      BY <3>1, <3>2, <3>3
    <3>5. e[1] = old.object
      BY <1>1, <2>2, <3>3, <3>4 DEF ClassesNamed, name
    <3> QED
      BY <3>1, <3>2, <3>3, <3>5
  <2>4. Implements(image, old.object, sig) /\ GetClass(image, old.object) = image.classes[old.object]
    BY <2>2, <2>3 DEF Implements, GetClass
  <2>5. Nearest(image, old.object, sig) = old.object
    BY <1>1, <1>3, <2>4, ClimbingStops
  <2> HIDE DEF entry
  <2>6. hit = [at |-> "bound", left |-> old.left, object |-> old.object, called |-> old.called, impl |-> old.impl,
               found |-> entry]
    BY <1>2, Becomes DEF entry
  <2>7. FoundNearest(image, hit)
    BY <2>3, <2>4, <2>5, <2>6 DEF FoundNearest
  <2> HIDE DEF hit
  <2> QED
    BY <1>2, <2>6, <2>7 DEF ThreadOK, Record
<1>5. ThreadOK(image, miss)
  <2>1. miss = [at |-> "climb", left |-> old.left, object |-> old.object, called |-> old.called, impl |-> old.impl,
                found |-> old.found]
    BY <1>2 DEF Record
  <2>2. OnTheWay(image, miss)
    BY <1>2, <1>3, <2>1 DEF OnTheWay
  <2> HIDE DEF miss
  <2> QED
    BY <1>2, <2>1, <2>2 DEF ThreadOK, Record
<1> HIDE DEF hit, miss
<1> QED
  BY <1>1, <1>4, <1>5, ThreadStep DEF Binds

LEMMA Climbs ==
  ASSUME Binds, Loaded, NEW t \in Threads, ClimbToImplementation(t)
  PROVE  Binds'
<1> DEFINE old == threads[t]
           sig == SignatureOf(image, old.called)
           class == GetClass(image, old.impl)
           own == MethodNamed(class, sig)
           there == [old EXCEPT !.at = "add", !.found = <<old.impl, CHOOSE m \in own : TRUE>>]
           further == [old EXCEPT !.impl = class.pid]
           lost == [old EXCEPT !.at = "lost"]
           N == Cardinality(DOMAIN image.classes)
           climb == Climbed(image, old.object, sig)
<1>1. /\ UNCHANGED <<image, virtual_cache>> /\ ClassesNamed(image)
      /\ threads' = [threads EXCEPT ![t] = IF own # {} THEN there
                                           ELSE IF class.pid \in DOMAIN image.classes THEN further ELSE lost]
  BY DEF ClimbToImplementation, Binds
<1>2. /\ Record(old) /\ Legal(image, <<old.object, old.called>>) /\ VirtualMethod(image, old.called)
      /\ old.at = "climb" /\ OnTheWay(image, old)
  BY DEF ClimbToImplementation, Binds, ThreadOK
<1>3. PICK k \in 0 .. N : old.impl = climb[k]
  BY <1>2 DEF OnTheWay
<1>4. N \in Nat /\ \A n \in 1 .. N : climb[n] = IF Implements(image, climb[n - 1], sig) THEN climb[n - 1]
                                               ELSE GetClass(image, climb[n - 1]).pid
  BY <1>1, Climbing
<1>5. Implements(image, climb[N], sig)
  BY <1>2 DEF Legal, Nearest
<1>6. ASSUME own # {} PROVE ThreadOK(image, there)
  <2>1. Implements(image, climb[k], sig)
    BY <1>3, <1>6 DEF Implements
  <2>2. Nearest(image, old.object, sig) = old.impl
    BY <1>1, <1>3, <2>1, ClimbingStops
  <2> DEFINE mine == CHOOSE m \in own : TRUE
  <2>3. mine \in own
    BY <1>6
  <2> HIDE DEF mine
  <2>4. there = [at |-> "add", left |-> old.left, object |-> old.object, called |-> old.called, impl |-> old.impl,
                 found |-> <<old.impl, mine>>]
    BY <1>2, Becomes DEF mine
  <2>5. FoundNearest(image, there)
    BY <2>2, <2>3, <2>4 DEF FoundNearest
  <2> HIDE DEF there
  <2> QED
    BY <1>2, <2>4, <2>5 DEF ThreadOK, Record
<1>7. ASSUME own = {} PROVE k + 1 \in 1 .. N /\ class.pid = climb[k + 1] /\ class.pid \in DOMAIN image.classes
  <2>1. ~Implements(image, climb[k], sig)
    BY <1>3, <1>7 DEF Implements
  <2>2. k # N
    BY <1>5, <2>1
  <2>3. k + 1 \in 1 .. N /\ (k + 1) - 1 = k
    BY <1>4, <2>2
  <2>4. climb[k + 1] = class.pid
    BY <1>3, <1>4, <2>1, <2>3
  <2>5. climb[k + 1] \in DOMAIN image.classes
    <3> SUFFICES ASSUME climb[k + 1] \notin DOMAIN image.classes PROVE FALSE
      OBVIOUS
    <3>1. k + 1 \in 0 .. N
      BY <1>4, <2>3
    <3>2. ~Implements(image, Nearest(image, old.object, sig), sig)
      BY <1>1, <3>1, ClimbingEnds
    <3> QED
      BY <1>5, <3>2 DEF Nearest
  <2> QED
    BY <2>3, <2>4, <2>5
<1>8. ASSUME own = {} PROVE ThreadOK(image, further)
  <2> DEFINE next == class.pid
  <2> HIDE DEF next
  <2>1. further = [at |-> "climb", left |-> old.left, object |-> old.object, called |-> old.called, impl |-> next,
                   found |-> old.found]
    BY <1>2 DEF Record, next
  <2>2. k + 1 \in 0 .. N /\ next = climb[k + 1]
    BY <1>4, <1>7, <1>8 DEF next
  <2>3. OnTheWay(image, further)
    BY <2>1, <2>2 DEF OnTheWay
  <2> HIDE DEF further
  <2> QED
    BY <1>2, <2>1, <2>3 DEF ThreadOK, Record
<1>9. threads' = [threads EXCEPT ![t] = IF own # {} THEN there ELSE further]
  BY <1>1, <1>7
<1> HIDE DEF there, further, own
<1> QED
  BY <1>1, <1>6, <1>8, <1>9, ThreadStep DEF Binds

LEMMA Adds ==
  ASSUME Binds, Loaded, NEW t \in Threads, AddVirtualEntry(t)
  PROVE  Binds'
<1> DEFINE old == threads[t]
           sig == SignatureOf(image, old.called)
           new == [old EXCEPT !.at = "bound"]
<1>1. UNCHANGED image /\ ClassesNamed(image) /\ threads' = [threads EXCEPT ![t] = new]
  BY DEF AddVirtualEntry, Binds
<1>2. /\ Record(old) /\ Legal(image, <<old.object, old.called>>) /\ VirtualMethod(image, old.called)
      /\ FoundNearest(image, old) /\ old.found[1] = old.impl
  BY DEF AddVirtualEntry, Binds, ThreadOK
<1>3. ThreadOK(image, new)
  <2>1. new = [at |-> "bound", left |-> old.left, object |-> old.object, called |-> old.called, impl |-> old.impl,
               found |-> old.found]
    BY <1>2 DEF Record
  <2>2. FoundNearest(image, new)
    BY <1>2, <2>1 DEF FoundNearest
  <2> HIDE DEF new
  <2> QED
    BY <1>2, <2>1, <2>2 DEF ThreadOK, Record
<1>4. EntryOK(image, Key(t), old.found)
  <2>1. Key(t) = <<image.classes[old.impl].name, sig>> /\ Key(t)[2] = sig
    BY DEF Key
  <2>2. old.found[2] \in MethodNamed(GetClass(image, old.impl), sig)
    BY <1>2 DEF FoundNearest
  <2>3. Implements(image, old.impl, sig)
    BY <2>2 DEF Implements
  <2>4. old.impl \in DOMAIN image.classes
    <3>1. DOMAIN GetClass(image, old.impl).mthds # {}
      BY <2>2 DEF MethodNamed
    <3> SUFFICES ASSUME old.impl \notin DOMAIN image.classes PROVE FALSE
      OBVIOUS
    <3>2. GetClass(image, old.impl).mthds = <<>>
      BY DEF GetClass
    <3> QED
      BY <3>1, <3>2
  <2>5. GetClass(image, old.impl) = image.classes[old.impl]
    BY <2>4 DEF GetClass
  <2> QED
    BY <1>2, <2>1, <2>2, <2>4, <2>5 DEF EntryOK
<1>5. ASSUME NEW key \in DOMAIN virtual_cache' PROVE EntryOK(image, key, virtual_cache'[key])
  <2>1. key \in DOMAIN virtual_cache \cup {Key(t)}
        /\ virtual_cache'[key] = IF key \in DOMAIN virtual_cache THEN virtual_cache[key] ELSE old.found
    BY DEF AddVirtualEntry
  <2> QED
    BY <1>4, <2>1 DEF Binds
<1> HIDE DEF new
<1> QED
  BY <1>1, <1>3, <1>5, ThreadStep

LEMMA Returns ==
  ASSUME Binds, Loaded, NEW t \in Threads, Return(t)
  PROVE  Binds'
<1>1. /\ UNCHANGED <<image, virtual_cache>>
      /\ threads' = [threads EXCEPT ![t] = Idle(threads[t].left)]
  BY DEF Return, Binds
<1>2. ThreadOK(image, Idle(threads[t].left))
  BY IdleOK
<1> QED
  BY <1>1, <1>2, ThreadStep DEF Binds

LEMMA BindsNext == Binds /\ [CallNext]_callVars => Binds'
<1> SUFFICES ASSUME Binds, [CallNext]_callVars PROVE Binds'
  OBVIOUS
<1>1. CASE LoadClasses
  BY <1>1, Loads
<1>2. ASSUME Loaded, NEW t \in Threads, NEW object, NEW c, NEW m,
             Legal(image, <<object, <<c, m>>>>), ProcessMethodCall(t, <<object, <<c, m>>>>)
      PROVE  Binds'
  BY <1>2, Calls
<1>3. ASSUME Loaded, NEW t \in Threads,
             GetVirtualEntry(t) \/ ClimbToImplementation(t) \/ AddVirtualEntry(t) \/ Return(t)
      PROVE  Binds'
  BY <1>3, Looks, Climbs, Adds, Returns
<1>4. CASE UNCHANGED callVars
  BY <1>4 DEF callVars, Binds, Loaded
<1> QED
  BY <1>1, <1>2, <1>3, <1>4 DEF CallNext

LEMMA BindsToNearest == Binds => BoundToNearest
<1> SUFFICES ASSUME Binds, NEW t \in Threads, threads[t].at = "bound", VirtualMethod(image, threads[t].called)
             PROVE  /\ FoundNearest(image, threads[t])
                    /\ ~VirtualMethod(image, threads[t].found)
  BY DEF Binds, ThreadOK, BoundToNearest, FoundNearest
<1>1. FoundNearest(image, threads[t]) /\ Legal(image, <<threads[t].object, threads[t].called>>)
  BY DEF Binds, ThreadOK
<1> QED
  BY <1>1 DEF FoundNearest, Legal, VirtualMethod

(* Whatever the classes and however many threads. *)
THEOREM CallsReachNearest == CallSpec => []BoundToNearest
<1>1. CallSpec => []Binds
  BY BindsInit, BindsNext, PTL DEF CallSpec
<1> QED
  BY <1>1, BindsToNearest, PTL
=============================================================================
