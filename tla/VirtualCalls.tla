---------------------------- MODULE VirtualCalls ----------------------------
(***************************************************************************)
(* Virtual method calls of a loaded program (src/vm/interpreter.cpp         *)
(* ProcessMethodCall, src/vm/common.h): threads look an implementation up   *)
(* in a cache they share, climb from the class of the object to the first   *)
(* class that has one, and add it to the cache under that class's name.     *)
(* Each look and each addition is alone under virtual_mutex; between them   *)
(* other threads run.                                                      *)
(*                                                                         *)
(* image.classes is a function from ids to classes, of which name, pid (the *)
(* id of the parent) and mthds, a function from ids to [name, virt, ..],    *)
(* count here; a method's name is <<class name, signature>>.                *)
(***************************************************************************)
EXTENDS Integers, FiniteSets

CONSTANTS
  Threads,     \* the threads of a program
  CallBound    \* the calls each thread makes: a function from Threads

VARIABLES
  image,          \* the loaded program
  virtual_cache,  \* by <<class, signature>>, the <<class id, method id>> to call
  threads         \* [at, left, object, called, impl, found]

callVars == <<image, virtual_cache, threads>>

GetClass(program, id) == IF id \in DOMAIN program.classes THEN program.classes[id] ELSE [name |-> "", pid |-> -1, infs |-> <<>>, mthds |-> <<>>]
MethodAt(program, id, m) == program.classes[id].mthds[m]
MethodNamed(c, sig) == { m \in DOMAIN c.mthds : c.mthds[m].name = <<c.name, sig>> }
Implements(program, id, sig) == MethodNamed(GetClass(program, id), sig) # {}
VirtualMethod(program, called) == MethodAt(program, called[1], called[2]).virt
SignatureOf(program, called) == MethodAt(program, called[1], called[2]).name[2]

-----------------------------------------------------------------------------
(* Fault: the cache is asked by signature alone. *)
FaultKey(t) == <<"System.Base", SignatureOf(image, threads[t].called)>>

(* ProcessMethodCall.  The key under which an implementation is cached is   *)
(* the name it has, so the class it was found in.                          *)
Key(t) == <<image.classes[threads[t].impl].name, SignatureOf(image, threads[t].called)>>

ProcessMethodCall(t, site) ==
  /\ threads[t].at = "idle" /\ threads[t].left > 0
  /\ threads' = [threads EXCEPT ![t] = [at |-> IF VirtualMethod(image, site[2]) THEN "look" ELSE "bound",
                                        left |-> @.left - 1, object |-> site[1], called |-> site[2],
                                        impl |-> site[1], found |-> site[2]]]
  /\ UNCHANGED <<image, virtual_cache>>

GetVirtualEntry(t) ==
  /\ threads[t].at = "look"
  /\ threads' = [threads EXCEPT ![t] =
       IF Key(t) \in DOMAIN virtual_cache THEN [@ EXCEPT !.at = "bound", !.found = virtual_cache[Key(t)]]
       ELSE [@ EXCEPT !.at = "climb"]]
  /\ UNCHANGED <<image, virtual_cache>>

(* The class's own method, or its parent's, and so on: NULL is dereferenced *)
(* past the last one.                                                      *)
ClimbToImplementation(t) ==
  LET c == GetClass(image, threads[t].impl)
      own == MethodNamed(c, SignatureOf(image, threads[t].called))
  IN  /\ threads[t].at = "climb"
      /\ threads' = [threads EXCEPT ![t] =
           IF own # {} THEN [@ EXCEPT !.at = "add", !.found = <<threads[t].impl, CHOOSE m \in own : TRUE>>]
           ELSE IF c.pid \in DOMAIN image.classes THEN [@ EXCEPT !.impl = c.pid]
           ELSE [@ EXCEPT !.at = "lost"]]
      /\ UNCHANGED <<image, virtual_cache>>

(* An entry that is there already is kept. *)
AddVirtualEntry(t) ==
  /\ threads[t].at = "add"
  /\ virtual_cache' = [k \in DOMAIN virtual_cache \cup {Key(t)} |->
                         IF k \in DOMAIN virtual_cache THEN virtual_cache[k] ELSE threads[t].found]
  /\ threads' = [threads EXCEPT ![t].at = "bound"]
  /\ UNCHANGED image

Idle(left) == [at |-> "idle", left |-> left, object |-> -1, called |-> <<-1, -1>>, impl |-> -1, found |-> <<-1, -1>>]
Return(t) ==
  /\ threads[t].at = "bound"
  /\ threads' = [threads EXCEPT ![t] = Idle(@.left)]
  /\ UNCHANGED <<image, virtual_cache>>

-----------------------------------------------------------------------------
(* The classes passed on the way up from one that has no such method. *)
Climbed(program, id, sig) ==
  LET climb[n \in 0 .. Cardinality(DOMAIN program.classes)] ==
        IF n = 0 THEN id
        ELSE IF Implements(program, climb[n - 1], sig) THEN climb[n - 1]
        ELSE GetClass(program, climb[n - 1]).pid
  IN  climb
Nearest(program, id, sig) == Climbed(program, id, sig)[Cardinality(DOMAIN program.classes)]

(* What the compiler and the loader see to: classes have ids and names of   *)
(* their own, and where a virtual method is called, the first class from    *)
(* the object's up that has the method has it written out.                 *)
ClassesNamed(program) ==
  LET ids == DOMAIN program.classes
  IN  /\ ids \subseteq Nat /\ IsFiniteSet(ids)
      /\ \A a, b \in ids : program.classes[a].name = program.classes[b].name => a = b
Legal(program, site) ==
  LET sig == SignatureOf(program, site[2])
      nearest == Nearest(program, site[1], sig)
  IN  /\ site[1] \in DOMAIN program.classes
      /\ VirtualMethod(program, site[2]) =>
           /\ Implements(program, nearest, sig)
           /\ \A m \in MethodNamed(GetClass(program, nearest), sig) : ~VirtualMethod(program, <<nearest, m>>)

(* A program as the machine runs it, whatever its classes. *)
Loaded == DOMAIN image.classes # {}
LoadClasses ==
  /\ ~Loaded
  /\ ClassesNamed(image')
  /\ UNCHANGED <<virtual_cache, threads>>

CallInit ==
  /\ ~Loaded
  /\ virtual_cache = <<>>
  /\ threads = [t \in Threads |-> Idle(CallBound[t])]

CallNext ==
  \/ LoadClasses
  \/ Loaded /\ \E t \in Threads :
       \/ GetVirtualEntry(t) \/ ClimbToImplementation(t) \/ AddVirtualEntry(t) \/ Return(t)
       \/ \E object, c \in DOMAIN image.classes : \E m \in DOMAIN image.classes[c].mthds :
            Legal(image, <<object, <<c, m>>>>) /\ ProcessMethodCall(t, <<object, <<c, m>>>>)

CallSpec == CallInit /\ [][CallNext]_callVars

(* A call reaches the method it names or, if that is virtual, the nearest   *)
(* implementation above the object's class, and never runs past the last    *)
(* class, whatever other threads put in the cache meanwhile                 *)
(* (interpreter.cpp ProcessMethodCall, common.h AddVirtualEntry).           *)
BoundToNearest ==
  \A t \in Threads :
    LET thread == threads[t]
        sig == SignatureOf(image, thread.called)
        nearest == Nearest(image, thread.object, sig)
    IN  /\ thread.at # "lost"
        /\ thread.at = "bound" =>
             IF VirtualMethod(image, thread.called)
             THEN /\ thread.found[1] = nearest
                  /\ thread.found[2] \in MethodNamed(GetClass(image, nearest), sig)
                  /\ ~VirtualMethod(image, thread.found)
             ELSE thread.found = thread.called
=============================================================================
