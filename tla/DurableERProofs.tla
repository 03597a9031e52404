--------------------------- MODULE DurableERProofs ----------------------------
(***************************************************************************)
(* The durable Entity Relationship store for every set of clients, ids,    *)
(* names and files, every number of commands and every set of swallowed    *)
(* errors.                                                                 *)
(***************************************************************************)
EXTENDS DurableER, TLAPS

\* A pointer that the store has promised to keep intact.
Active(n) == pointer[n] # None /\ sound[n]

\* How a collection and such a pointer stand: before it deletes anything the
\* collection has still to read the pointer or knows what it names, and then
\* it is about to clear the pointer, or leaves what it names alone.
Spares(m, n) ==
    /\ m.pc = "read" /\ m.delete => n \in m.names \/ m.refs[n] = pointer[n]
    /\ m.pc = "delete" =>
         \/ n \in m.names /\ m.force /\ m.target = pointer[n]
         \/ /\ n \notin m.names /\ pointer[n] \notin m.cands
            /\ \A o \in m.todo : o[1] # pointer[n]

\* Pointers are cleared before anything is deleted, and only for a target.
Shape(m) ==
    /\ m.pc = "read" => m.cands = {} /\ m.todo = {}
    /\ m.pc = "delete" => /\ m.names # {} => m.todo = {}
                          /\ m.target = None => m.names = {}
    /\ m.pc = "done" => m.cands = {} /\ m.todo = {}

\* What a collection that runs alone has still to delete.
Thorough(m) == m.quiet =>
    /\ m.pc \in {"read", "delete", "done"}
    /\ m.pc = "read" => \A n \in Names \ m.names : m.refs[n] = pointer[n]
    /\ m.pc \in {"delete", "done"} => \A o \in objects :
         \/ o[1] \in m.cands \/ o \in m.todo
         \/ m.target # None /\ o[1] # m.target
         \/ m.target = None /\ \E n \in Names : pointer[n] = o[1]

CommandGood(m) ==
    Shape(m) /\ Thorough(m) /\ \A n \in Names : Active(n) => Spares(m, n)

\* Nobody else runs while a collection is quiet.
QuietAlone == \A c, d \in Clients : cmd[c].quiet /\ Running(d) => c = d

DurableInv ==
    /\ TypeOK /\ QuietAlone /\ PointerIntact
    /\ \A c \in Clients : CommandGood(cmd[c])

------------------------------------------------------------------------------
LEMMA IdleGood == Idle \in Commands /\ CommandGood(Idle)
BY DEF Idle, Commands, NoPointers, CommandGood, Shape, Thorough, Spares

LEMMA DurableInit == Init => DurableInv
<1> SUFFICES ASSUME Init PROVE DurableInv
  OBVIOUS
<1>1. TypeOK
  <2>1. commands \in 0 .. MaxCommands
    BY DurableAssumption DEF Init
  <2> QED BY <2>1, IdleGood DEF Init, TypeOK, NoPointers
<1>2. QuietAlone /\ PointerIntact
  BY DEF Init, QuietAlone, PointerIntact, Idle
<1> QED BY <1>1, <1>2, IdleGood DEF Init, DurableInv

\* A step of a running command that touches no object and no pointer.
LEMMA BecomeStep ==
    ASSUME DurableInv, NEW c \in Clients, Running(c), NEW m \in Commands,
           Become(c, m), UNCHANGED <<objects, pointer, sound>>,
           m.quiet => cmd[c].quiet, CommandGood(m)
    PROVE  DurableInv'
<1>1. TypeOK'
  BY DEF DurableInv, TypeOK, Become
<1>2. PointerIntact'
  BY DEF DurableInv, PointerIntact, Whole
<1>3. QuietAlone'
  BY DEF DurableInv, TypeOK, QuietAlone, Running, Become
<1>4. ASSUME NEW d \in Clients PROVE CommandGood(cmd[d])'
  <2>1. cmd'[d] = m \/ cmd'[d] = cmd[d]
    BY DEF DurableInv, TypeOK, Become
  <2>2. PICK q : q = cmd'[d] /\ CommandGood(q)
    BY <2>1 DEF DurableInv
  <2>3. CommandGood(q)'
    BY <2>2 DEF CommandGood, Shape, Thorough, Active, Spares
  <2> QED BY <2>2, <2>3
<1> QED BY <1>1, <1>2, <1>3, <1>4 DEF DurableInv

LEMMA StepsOfCollection ==
    ASSUME DurableInv, NEW c \in Clients,
           \/ ReadPointer(c) \/ Refuse(c) \/ Target(c) \/ Sweep(c)
           \/ SweepFindsNothing(c) \/ ListPrefix(c) \/ Report(c) \/ Stops(c)
    PROVE  DurableInv'
<1>0. /\ TypeOK /\ cmd[c] \in Commands /\ CommandGood(cmd[c])
      /\ Running(c) /\ UNCHANGED <<objects, pointer, sound>>
  BY DEF DurableInv, TypeOK, Running, ReadPointer, Refuse, Target, Sweep,
         SweepFindsNothing, ListPrefix, Report, Stops
<1>1. ASSUME Become(c, Idle) PROVE DurableInv'
  BY <1>0, <1>1, IdleGood, BecomeStep DEF Idle
<1>2. CASE ReadPointer(c)
  <2>1. PICK n \in cmd[c].names : /\ pointer[n] # None
          /\ Become(c, [cmd[c] EXCEPT !.names = @ \ {n}, !.refs[n] = pointer[n]])
    BY <1>2 DEF ReadPointer
  <2>2. PICK m : m = [cmd[c] EXCEPT !.names = @ \ {n}, !.refs[n] = pointer[n]]
    OBVIOUS
  <2>3. m \in Commands
    BY <1>0, <2>1, <2>2 DEF TypeOK, Commands
  <2>4. /\ m.pc = "read" /\ m.quiet = cmd[c].quiet /\ m.names = cmd[c].names \ {n}
        /\ m.cands = cmd[c].cands /\ m.todo = cmd[c].todo /\ m.delete = cmd[c].delete
        /\ m.refs = [cmd[c].refs EXCEPT ![n] = pointer[n]]
        /\ cmd[c].refs \in [Names -> Ids \cup {None}] /\ n \in Names
    BY <1>0, <1>2, <2>1, <2>2 DEF Commands, ReadPointer
  <2>5. CommandGood(m)
    <3>1. cmd[c].pc = "read" /\ m.refs[n] = pointer[n]
      BY <1>2, <2>4 DEF ReadPointer
    <3>2. \A x \in Names \ {n} : m.refs[x] = cmd[c].refs[x]
      BY <2>4
    <3>3. Shape(m)
      BY <1>0, <2>4, <3>1 DEF CommandGood, Shape
    <3>4. Thorough(m)
      BY <1>0, <2>4, <3>1, <3>2 DEF CommandGood, Thorough
    <3>5. ASSUME NEW x \in Names, Active(x) PROVE Spares(m, x)
      BY <1>0, <2>4, <3>1, <3>2, <3>5 DEF CommandGood, Spares
    <3> QED BY <3>3, <3>4, <3>5 DEF CommandGood
  <2> QED BY <1>0, <2>1, <2>2, <2>3, <2>4, <2>5, BecomeStep
<1>3. CASE Target(c)
  <2>1. CASE cmd[c].delete
    <3>1. PICK m : m = [cmd[c] EXCEPT !.pc = "delete", !.cands = {cmd[c].target},
                          !.names = IF cmd[c].force
                                    THEN Pointing(cmd[c].refs, cmd[c].target) ELSE {}]
      OBVIOUS
    <3>2. Become(c, m)
      BY <1>3, <2>1, <3>1 DEF Target
    <3>3. m \in Commands
      BY <1>0, <1>3, <3>1 DEF Commands, Target, Pointing
    <3>4. /\ m.pc = "delete" /\ m.quiet = cmd[c].quiet /\ m.force = cmd[c].force
          /\ m.names = IF m.force THEN Pointing(cmd[c].refs, m.target) ELSE {}
          /\ m.cands = {m.target} /\ m.todo = cmd[c].todo /\ m.target = cmd[c].target
          /\ m.target # None
      BY <1>0, <1>3, <3>1 DEF Commands, Target
    <3>5. Shape(m) /\ Thorough(m)
      BY <1>0, <1>3, <3>4 DEF CommandGood, Shape, Thorough, Target
    <3>6. ASSUME NEW n \in Names, Active(n) PROVE Spares(m, n)
      <4>1. cmd[c].refs[n] = pointer[n]
        BY <1>0, <1>3, <2>1, <3>6 DEF CommandGood, Spares, Target
      <4> QED BY <1>0, <1>3, <3>4, <4>1 DEF Spares, Target, Refused, Pointing, CommandGood, Shape
    <3> QED BY <1>0, <3>2, <3>3, <3>4, <3>5, <3>6, BecomeStep DEF CommandGood
  <2> QED BY <1>1, <1>3, <2>1 DEF Target
<1>4. CASE Sweep(c)
  <2>1. CASE cmd[c].delete
    <3>1. PICK m : m = [cmd[c] EXCEPT !.pc = "delete",
                          !.cands = {o[1] : o \in objects} \ Referenced(cmd[c].refs)]
      OBVIOUS
    <3>2. Become(c, m)
      BY <1>4, <2>1, <3>1 DEF Sweep
    <3>3. m \in Commands
      <4>1. {o[1] : o \in objects} \subseteq Ids
        BY <1>0 DEF TypeOK, Objects
      <4> QED BY <1>0, <3>1, <4>1 DEF Commands
    <3>4. /\ m.pc = "delete" /\ m.quiet = cmd[c].quiet /\ m.names = {}
          /\ m.cands = {o[1] : o \in objects} \ Referenced(cmd[c].refs)
          /\ m.todo = cmd[c].todo /\ m.target = None
      BY <1>0, <1>4, <3>1 DEF Commands, Sweep
    <3>5. Shape(m)
      BY <1>0, <1>4, <3>4 DEF CommandGood, Shape, Sweep
    <3>6. Thorough(m)
      BY <1>0, <1>4, <3>4 DEF CommandGood, Thorough, Sweep, Referenced
    <3>7. ASSUME NEW n \in Names, Active(n) PROVE Spares(m, n)
      <4>1. cmd[c].refs[n] = pointer[n] /\ cmd[c].todo = {} /\ pointer[n] # None
        BY <1>0, <1>4, <2>1, <3>7 DEF CommandGood, Shape, Spares, Active, Sweep
      <4> QED BY <3>4, <4>1 DEF Spares, Referenced
    <3> QED BY <1>0, <3>2, <3>3, <3>4, <3>5, <3>6, <3>7, BecomeStep DEF CommandGood
  <2> QED BY <1>1, <1>4, <2>1 DEF Sweep
<1>5. CASE SweepFindsNothing(c)
  <2>1. PICK m : m = [cmd[c] EXCEPT !.pc = "delete", !.quiet = FALSE]
    OBVIOUS
  <2>2. m \in Commands
    BY <1>0, <2>1 DEF Commands
  <2>3. /\ m.pc = "delete" /\ ~ m.quiet /\ m.names = {} /\ m.cands = {} /\ m.todo = {}
    BY <1>0, <1>5, <2>1 DEF Commands, SweepFindsNothing, CommandGood, Shape
  <2>4. CommandGood(m)
    BY <2>3 DEF CommandGood, Shape, Thorough, Spares
  <2> QED BY <1>0, <1>5, <2>1, <2>2, <2>3, <2>4, BecomeStep DEF SweepFindsNothing
<1>6. CASE ListPrefix(c)
  <2>1. PICK i \in cmd[c].cands :
          \/ Become(c, [cmd[c] EXCEPT !.cands = @ \ {i}, !.todo = Under(i)])
          \/ Become(c, [cmd[c] EXCEPT !.cands = @ \ {i}, !.quiet = FALSE])
    BY <1>6 DEF ListPrefix
  <2>2. CASE Become(c, [cmd[c] EXCEPT !.cands = @ \ {i}, !.todo = Under(i)])
    <3>1. PICK m : m = [cmd[c] EXCEPT !.cands = @ \ {i}, !.todo = Under(i)]
      OBVIOUS
    <3>2. m \in Commands
      BY <1>0, <3>1 DEF Commands, TypeOK, Under
    <3>3. /\ m.pc = "delete" /\ m.quiet = cmd[c].quiet /\ m.names = {}
          /\ m.cands = cmd[c].cands \ {i} /\ m.todo = {o \in objects : o[1] = i}
          /\ m.target = cmd[c].target /\ cmd[c].names = {} /\ cmd[c].todo = {}
      BY <1>0, <1>6, <3>1 DEF Commands, ListPrefix, Under
    <3>4. CommandGood(m)
      BY <1>0, <1>6, <2>1, <3>3 DEF CommandGood, Shape, Thorough, Spares, ListPrefix
    <3> QED BY <1>0, <2>2, <3>1, <3>2, <3>3, <3>4, BecomeStep
  <2>3. CASE Become(c, [cmd[c] EXCEPT !.cands = @ \ {i}, !.quiet = FALSE])
    <3>1. PICK m : m = [cmd[c] EXCEPT !.cands = @ \ {i}, !.quiet = FALSE]
      OBVIOUS
    <3>2. m \in Commands
      BY <1>0, <3>1 DEF Commands
    <3>3. /\ m.pc = "delete" /\ ~ m.quiet /\ m.names = {} /\ m.todo = {}
          /\ m.cands = cmd[c].cands \ {i} /\ cmd[c].names = {}
      BY <1>0, <1>6, <3>1 DEF Commands, ListPrefix
    <3>4. CommandGood(m)
      BY <1>0, <1>6, <3>3 DEF CommandGood, Shape, Thorough, Spares, ListPrefix
    <3> QED BY <1>0, <2>3, <3>1, <3>2, <3>3, <3>4, BecomeStep
  <2> QED BY <2>1, <2>2, <2>3
<1>7. CASE Report(c)
  <2>1. PICK m : m = [cmd[c] EXCEPT !.pc = "done"]
    OBVIOUS
  <2>2. m \in Commands
    BY <1>0, <2>1 DEF Commands
  <2>3. /\ m.pc = "done" /\ m.quiet = cmd[c].quiet /\ m.cands = {} /\ m.todo = {}
        /\ m.target = cmd[c].target /\ cmd[c].cands = {} /\ cmd[c].todo = {}
    BY <1>0, <1>7, <2>1 DEF Commands, Report
  <2>4. CommandGood(m)
    BY <1>0, <1>7, <2>3 DEF CommandGood, Shape, Thorough, Spares, Report
  <2> QED BY <1>0, <1>7, <2>1, <2>2, <2>3, <2>4, BecomeStep DEF Report
<1> QED BY <1>1, <1>2, <1>3, <1>4, <1>5, <1>6, <1>7 DEF Refuse, Stops

------------------------------------------------------------------------------
\* A command starts, and everybody else is no longer alone.
LEMMA StartStep ==
    ASSUME DurableInv, NEW c \in Clients, NEW m \in Commands, Start(c, m),
           UNCHANGED objects, TypeOK',
           m.quiet => \A d \in Clients : ~ Running(d), CommandGood(m)', PointerIntact',
           \A n \in Names : Active(n)' => \/ Active(n) /\ pointer'[n] = pointer[n]
                                          \/ \A d \in Clients : ~ Collecting(d)
    PROVE  DurableInv'
<1>1. cmd' = [d \in Clients |-> IF d = c THEN m ELSE [cmd[d] EXCEPT !.quiet = FALSE]]
  BY DEF Start
<1>2. ASSUME NEW d \in Clients, d # c
      PROVE  /\ cmd'[d].pc = cmd[d].pc /\ ~ cmd'[d].quiet
             /\ cmd'[d].names = cmd[d].names /\ cmd'[d].refs = cmd[d].refs
             /\ cmd'[d].cands = cmd[d].cands /\ cmd'[d].todo = cmd[d].todo
             /\ cmd'[d].force = cmd[d].force /\ cmd'[d].delete = cmd[d].delete
             /\ cmd'[d].target = cmd[d].target
  BY <1>1, <1>2 DEF DurableInv, TypeOK, Commands
<1>3. QuietAlone'
  BY <1>1, <1>2 DEF QuietAlone, Running
<1>4. ASSUME NEW d \in Clients PROVE CommandGood(cmd[d])'
  <2>1. CASE d = c
    BY <1>1, <2>1
  <2>2. CASE d # c
    <3>1. CommandGood(cmd[d])
      BY DEF DurableInv
    <3>2. Shape(cmd[d])' /\ Thorough(cmd[d])'
      BY <1>2, <2>2, <3>1 DEF CommandGood, Shape, Thorough
    <3>3. ASSUME NEW n \in Names, Active(n)' PROVE Spares(cmd[d], n)'
      <4>1. CASE \A e \in Clients : ~ Collecting(e)
        BY <1>2, <2>2, <4>1 DEF Spares, Collecting
      <4>2. CASE Active(n) /\ pointer'[n] = pointer[n]
        BY <1>2, <2>2, <3>1, <4>2 DEF CommandGood, Spares
      <4> QED BY <3>3, <4>1, <4>2
    <3> QED BY <3>2, <3>3 DEF CommandGood
  <2> QED BY <2>1, <2>2
<1> QED BY <1>3, <1>4 DEF DurableInv

LEMMA StartTyped ==
    ASSUME TypeOK, NEW c \in Clients, NEW m \in Commands, Start(c, m)
    PROVE  cmd' \in [Clients -> Commands] /\ commands' \in 0 .. MaxCommands
<1>1. \A d \in Clients : [cmd[d] EXCEPT !.quiet = FALSE] \in Commands
  BY DEF TypeOK, Commands
<1>2. commands' \in 0 .. MaxCommands
  BY DurableAssumption DEF TypeOK, Start
<1> QED BY <1>1, <1>2 DEF Start

LEMMA WriteErStep ==
    ASSUME DurableInv, NEW c \in Clients, NEW i \in Ids, NEW n \in Names, WriteEr(c, i, n)
    PROVE  DurableInv'
<1>1. PICK m : m = [Idle EXCEPT !.pc = "write", !.todo = {<<i, n, f>> : f \in Files}]
  OBVIOUS
<1>2. m \in Commands /\ m.pc = "write" /\ ~ m.quiet
  <2>1. {<<i, n, f>> : f \in Files} \subseteq Objects
    BY DEF Objects
  <2>2. m \in Commands
    BY <1>1, <2>1, IdleGood DEF Commands
  <2> QED BY <1>1, <2>2 DEF Idle
<1>3. CommandGood(m)'
  BY <1>2 DEF CommandGood, Shape, Thorough, Spares
<1>4. Start(c, m) /\ UNCHANGED <<objects, pointer, sound>>
  BY <1>1 DEF WriteEr
<1>5. TypeOK' /\ PointerIntact'
  BY <1>2, <1>4, StartTyped DEF DurableInv, TypeOK, PointerIntact, Whole
<1> QED BY <1>2, <1>3, <1>4, <1>5, StartStep DEF Active

LEMMA PromoteErStep ==
    ASSUME DurableInv, NEW c \in Clients, NEW i \in Ids, NEW n \in Names, PromoteEr(c, i, n)
    PROVE  DurableInv'
<1>0. TypeOK
  BY DEF DurableInv
<1>1. CommandGood(Idle)'
  BY DEF Idle, CommandGood, Shape, Thorough, Spares
<1>2. Start(c, Idle) /\ UNCHANGED objects /\ ~ Idle.quiet
  BY DEF PromoteEr, Idle
<1>3. /\ pointer'[n] = i /\ pointer' \in [Names -> Ids \cup {None}]
      /\ sound' \in [Names -> BOOLEAN]
      /\ sound'[n] = (Whole(i, n) /\ \A d \in Clients : ~ Collecting(d))
      /\ \A x \in Names \ {n} : pointer'[x] = pointer[x] /\ sound'[x] = sound[x]
  BY <1>0 DEF PromoteEr, TypeOK
<1>4. TypeOK'
  BY <1>0, <1>2, <1>3, IdleGood, StartTyped DEF TypeOK
<1>5. PointerIntact'
  BY <1>2, <1>3 DEF DurableInv, PointerIntact, Whole
<1>6. \A x \in Names : Active(x)' => \/ Active(x) /\ pointer'[x] = pointer[x]
                                     \/ \A d \in Clients : ~ Collecting(d)
  BY <1>3 DEF Active
<1> QED BY <1>1, <1>2, <1>4, <1>5, <1>6, IdleGood, StartStep

LEMMA GcErStep ==
    ASSUME DurableInv, NEW c \in Clients, NEW target \in Ids \cup {None},
           NEW force \in BOOLEAN, NEW delete \in BOOLEAN, GcEr(c, target, force, delete)
    PROVE  DurableInv'
<1>0. TypeOK
  BY DEF DurableInv
<1>1. PICK swallowed \in {FALSE, "roots" \in SwallowedErrors} :
        /\ Start(c, [Idle EXCEPT !.pc = "read", !.target = target, !.force = force,
                        !.delete = delete,
                        !.names = {n \in Names : pointer[n] # None /\ ~ swallowed},
                        !.quiet = ~ swallowed /\ \A d \in Clients : ~ Running(d)])
        /\ sound' = [n \in Names |-> sound[n] /\ ~ (swallowed /\ delete)]
  BY DEF GcEr
<1>2. PICK m : m = [Idle EXCEPT !.pc = "read", !.target = target, !.force = force,
                      !.delete = delete,
                      !.names = {n \in Names : pointer[n] # None /\ ~ swallowed},
                      !.quiet = ~ swallowed /\ \A d \in Clients : ~ Running(d)]
  OBVIOUS
<1>3. m \in Commands
  <2>1. (~ swallowed /\ \A d \in Clients : ~ Running(d)) \in BOOLEAN
    OBVIOUS
  <2> QED BY <1>2, <2>1, IdleGood DEF Commands
<1>4. /\ m.pc = "read" /\ m.delete = delete /\ m.cands = {} /\ m.todo = {}
      /\ m.names = {n \in Names : pointer[n] # None /\ ~ swallowed}
      /\ m.refs = [n \in Names |-> None]
      /\ m.quiet = (~ swallowed /\ \A d \in Clients : ~ Running(d))
  BY <1>2 DEF Idle, NoPointers
<1>5. Start(c, m) /\ UNCHANGED <<objects, pointer>>
  BY <1>1, <1>2 DEF GcEr
<1>6. /\ sound' \in [Names -> BOOLEAN]
      /\ \A n \in Names : sound'[n] => sound[n] /\ ~ (swallowed /\ delete)
  BY <1>0, <1>1 DEF TypeOK
<1>7. TypeOK' /\ PointerIntact'
  BY <1>0, <1>3, <1>5, <1>6, StartTyped DEF DurableInv, TypeOK, PointerIntact, Whole
<1>8. CommandGood(m)'
  <2>1. Shape(m)' /\ Thorough(m)'
    BY <1>0, <1>4, <1>5 DEF Shape, Thorough, TypeOK
  <2>2. ASSUME NEW n \in Names, Active(n)' PROVE Spares(m, n)'
    BY <1>4, <1>5, <1>6, <2>2 DEF Spares, Active
  <2> QED BY <2>1, <2>2 DEF CommandGood
<1> QED BY <1>3, <1>4, <1>5, <1>6, <1>7, <1>8, StartStep DEF Active

------------------------------------------------------------------------------
\* write-er adds an object, when no quiet collection is about.
LEMMA PutObjectStep ==
    ASSUME DurableInv, NEW c \in Clients, PutObject(c)
    PROVE  DurableInv'
<1>0. TypeOK /\ cmd[c] \in Commands /\ CommandGood(cmd[c]) /\ cmd[c].pc = "write"
  BY DEF DurableInv, TypeOK, PutObject
<1>1. PICK o \in cmd[c].todo :
        /\ objects' = objects \cup {o}
        /\ Become(c, IF cmd[c].todo \ {o} = {} THEN Idle
                     ELSE [cmd[c] EXCEPT !.todo = cmd[c].todo \ {o}])
  BY DEF PutObject
<1>2. PICK m : m = IF cmd[c].todo \ {o} = {} THEN Idle
                   ELSE [cmd[c] EXCEPT !.todo = cmd[c].todo \ {o}]
  OBVIOUS
<1>3. m \in Commands /\ m.pc \in {"write", "idle"} /\ ~ m.quiet
  <2>1. ~ cmd[c].quiet
    BY <1>0 DEF CommandGood, Thorough
  <2> QED BY <1>0, <1>2, <2>1, IdleGood DEF Commands, Idle
<1>4. /\ cmd' = [cmd EXCEPT ![c] = m] /\ UNCHANGED <<pointer, sound, commands>>
      /\ o \in Objects
  BY <1>0, <1>1, <1>2 DEF Become, PutObject, Commands
<1>5. TypeOK' /\ PointerIntact'
  BY <1>0, <1>1, <1>3, <1>4 DEF DurableInv, TypeOK, PointerIntact, Whole
<1>6. \A d \in Clients : ~ cmd'[d].quiet
  BY <1>0, <1>3, <1>4 DEF DurableInv, TypeOK, QuietAlone, Running
<1>7. ASSUME NEW d \in Clients PROVE CommandGood(cmd[d])'
  <2>1. CASE d = c
    <3>1. cmd'[d] = m
      BY <1>0, <1>4, <2>1 DEF TypeOK
    <3> QED BY <1>3, <3>1 DEF CommandGood, Shape, Thorough, Spares
  <2>2. CASE d # c
    <3>1. cmd'[d] = cmd[d] /\ CommandGood(cmd[d])
      BY <1>0, <1>4, <2>2 DEF TypeOK, DurableInv
    <3> QED BY <1>4, <1>6, <3>1 DEF CommandGood, Shape, Thorough, Spares, Active
  <2> QED BY <2>1, <2>2
<1> QED BY <1>5, <1>6, <1>7 DEF DurableInv, QuietAlone

\* A collection clears a pointer.
LEMMA DeletePointerStep ==
    ASSUME DurableInv, NEW c \in Clients, DeletePointer(c)
    PROVE  DurableInv'
<1>0. TypeOK /\ cmd[c] \in Commands /\ CommandGood(cmd[c]) /\ cmd[c].pc = "delete"
  BY DEF DurableInv, TypeOK, DeletePointer
<1>1. PICK n \in cmd[c].names : /\ pointer' = [pointer EXCEPT ![n] = None]
                                /\ Become(c, [cmd[c] EXCEPT !.names = @ \ {n}])
  BY DEF DeletePointer
<1>2. PICK m : m = [cmd[c] EXCEPT !.names = @ \ {n}]
  OBVIOUS
<1>3. /\ m \in Commands /\ m.pc = "delete" /\ m.quiet = cmd[c].quiet
      /\ m.names = cmd[c].names \ {n} /\ m.cands = cmd[c].cands
      /\ m.todo = cmd[c].todo /\ m.force = cmd[c].force /\ m.target = cmd[c].target
      /\ n \in Names
  BY <1>0, <1>1, <1>2 DEF Commands
<1>4. cmd' = [cmd EXCEPT ![c] = m] /\ UNCHANGED <<objects, sound, commands>>
  BY <1>1, <1>2 DEF Become, DeletePointer
<1>5. /\ pointer' \in [Names -> Ids \cup {None}] /\ pointer'[n] = None
      /\ \A x \in Names \ {n} : pointer'[x] = pointer[x]
  BY <1>0, <1>1, <1>3 DEF TypeOK
<1>6. TypeOK' /\ PointerIntact'
  BY <1>0, <1>3, <1>4, <1>5 DEF DurableInv, TypeOK, PointerIntact, Whole
<1>7. QuietAlone'
  BY <1>0, <1>3, <1>4 DEF DurableInv, TypeOK, QuietAlone, Running
<1>8. ASSUME NEW d \in Clients PROVE CommandGood(cmd[d])'
  <2>0. \A x \in Names : Active(x)' => x # n /\ Active(x) /\ pointer'[x] = pointer[x]
    BY <1>4, <1>5 DEF Active
  <2>1. CASE d = c
    <3>1. cmd'[d] = m
      BY <1>0, <1>4, <2>1 DEF TypeOK
    <3>2. Shape(m)'
      BY <1>0, <1>3 DEF CommandGood, Shape
    <3>3. Thorough(m)'
      BY <1>0, <1>1, <1>3, <1>4 DEF CommandGood, Shape, Thorough
    <3>4. ASSUME NEW x \in Names, Active(x)' PROVE Spares(m, x)'
      BY <1>0, <1>3, <2>0, <3>4 DEF CommandGood, Spares
    <3> QED BY <3>1, <3>2, <3>3, <3>4 DEF CommandGood
  <2>2. CASE d # c
    <3>1. cmd'[d] = cmd[d] /\ CommandGood(cmd[d]) /\ ~ cmd[d].quiet
      BY <1>0, <1>4, <2>2 DEF TypeOK, DurableInv, QuietAlone, Running
    <3> QED BY <2>0, <3>1 DEF CommandGood, Shape, Thorough, Spares
  <2> QED BY <2>1, <2>2
<1> QED BY <1>6, <1>7, <1>8 DEF DurableInv

\* A collection deletes an object: never one that an active pointer names.
LEMMA DeleteObjectStep ==
    ASSUME DurableInv, NEW c \in Clients, DeleteObject(c)
    PROVE  DurableInv'
<1>0. TypeOK /\ cmd[c] \in Commands /\ CommandGood(cmd[c]) /\ cmd[c].pc = "delete"
  BY DEF DurableInv, TypeOK, DeleteObject
<1>1. PICK o \in cmd[c].todo \cap objects :
        objects' = objects \ {o} /\ Become(c, [cmd[c] EXCEPT !.todo = @ \ {o}])
  BY DEF DeleteObject
<1>2. PICK m : m = [cmd[c] EXCEPT !.todo = @ \ {o}]
  OBVIOUS
<1>3. /\ m \in Commands /\ m.pc = "delete" /\ m.quiet = cmd[c].quiet
      /\ m.names = cmd[c].names /\ m.cands = cmd[c].cands
      /\ m.todo = cmd[c].todo \ {o} /\ m.force = cmd[c].force /\ m.target = cmd[c].target
  BY <1>0, <1>1, <1>2 DEF Commands
<1>4. cmd' = [cmd EXCEPT ![c] = m] /\ UNCHANGED <<pointer, sound, commands>>
  BY <1>1, <1>2 DEF Become, DeleteObject
<1>5. TypeOK' /\ QuietAlone'
  BY <1>0, <1>1, <1>3, <1>4 DEF DurableInv, TypeOK, QuietAlone, Running
<1>6. PointerIntact'
  <2>1. ASSUME NEW n \in Names, Active(n) PROVE o[1] # pointer[n]
    BY <1>0, <1>1, <2>1 DEF CommandGood, Shape, Spares
  <2>2. ASSUME NEW n \in Names, Active(n), NEW f \in Files
        PROVE  <<pointer[n], n, f>> \in objects'
    <3>1. <<pointer[n], n, f>> \in objects
      BY <2>2 DEF DurableInv, PointerIntact, Whole, Active
    <3> QED BY <1>1, <2>1, <2>2, <3>1
  <2> QED BY <1>4, <2>2 DEF PointerIntact, Whole, Active
<1>7. ASSUME NEW d \in Clients PROVE CommandGood(cmd[d])'
  <2>1. CASE d = c
    <3>1. cmd'[d] = m
      BY <1>0, <1>4, <2>1 DEF TypeOK
    <3>2. Shape(m)'
      BY <1>0, <1>3 DEF CommandGood, Shape
    <3>3. Thorough(m)'
      BY <1>0, <1>1, <1>3, <1>4 DEF CommandGood, Thorough
    <3>4. ASSUME NEW x \in Names, Active(x)' PROVE Spares(m, x)'
      BY <1>0, <1>3, <1>4, <3>4 DEF CommandGood, Spares, Active
    <3> QED BY <3>1, <3>2, <3>3, <3>4 DEF CommandGood
  <2>2. CASE d # c
    <3>1. cmd'[d] = cmd[d] /\ CommandGood(cmd[d]) /\ ~ cmd[d].quiet
      BY <1>0, <1>4, <2>2 DEF TypeOK, DurableInv, QuietAlone, Running
    <3> QED BY <1>4, <3>1 DEF CommandGood, Shape, Thorough, Spares, Active
  <2> QED BY <2>1, <2>2
<1> QED BY <1>5, <1>6, <1>7 DEF DurableInv

------------------------------------------------------------------------------
LEMMA DurableInductive == DurableInv /\ [Next]_vars => DurableInv'
<1> SUFFICES ASSUME DurableInv, [Next]_vars PROVE DurableInv'
  OBVIOUS
<1>1. CASE UNCHANGED vars
  BY <1>1 DEF vars, DurableInv, TypeOK, QuietAlone, Running, PointerIntact, Whole,
     CommandGood, Shape, Thorough, Active, Spares
<1>2. CASE Next
  BY <1>2, WriteErStep, PromoteErStep, GcErStep, PutObjectStep, StepsOfCollection,
     DeletePointerStep, DeleteObjectStep DEF Next, CollectStep
<1> QED BY <1>1, <1>2

LEMMA DurableAlways == Spec => []DurableInv
BY DurableInit, DurableInductive, PTL DEF Spec

\* The store and the commands stay in their types.
THEOREM DurableTyped == Spec => []TypeOK
<1>1. DurableInv => TypeOK
  BY DEF DurableInv
<1> QED BY <1>1, DurableAlways, PTL

\* A pointer promoted over a whole Entity Relationship, with no gc-er going on,
\* names a whole one for as long as it is there, whatever is run beside it.
THEOREM PointersIntact == Spec => []PointerIntact
<1>1. DurableInv => PointerIntact
  BY DEF DurableInv
<1> QED BY <1>1, DurableAlways, PTL

\* A gc-er that ran alone and reported has left no garbage.
THEOREM CollectionsComplete == Spec => []CollectionComplete
<1>1. DurableInv => CollectionComplete
  <2> SUFFICES ASSUME DurableInv, NEW c \in Clients, cmd[c].pc = "done", cmd[c].quiet,
                      NEW o \in objects
               PROVE  /\ o[1] # cmd[c].target
                      /\ cmd[c].target = None => \E n \in Names : pointer[n] = o[1]
    BY DEF CollectionComplete
  <2>1. o[1] \in Ids
    BY DEF DurableInv, TypeOK, Objects
  <2>2. Shape(cmd[c]) /\ Thorough(cmd[c])
    BY DEF DurableInv, CommandGood
  <2> QED BY <2>1, <2>2, DurableAssumption DEF Shape, Thorough
<1> QED BY <1>1, DurableAlways, PTL

\* gc-er clears such a pointer only when it was forced on what the pointer names.
THEOREM OnlyTargetCleared == Spec => ClearsOnlyTarget
<1>1. ASSUME DurableInv, [Next]_vars, NEW n \in Names,
             pointer[n] # None, sound[n], pointer'[n] = None
      PROVE  \E c \in Clients : /\ cmd[c].pc = "delete" /\ cmd[c].force
                                /\ cmd[c].target = pointer[n]
  <2>1. pointer' # pointer
    BY <1>1
  <2>2. ASSUME NEW c \in Clients, NEW i \in Ids, NEW x \in Names, PromoteEr(c, i, x)
        PROVE  FALSE
    BY <1>1, <2>2, DurableAssumption DEF DurableInv, TypeOK, PromoteEr
  <2>3. PICK c \in Clients : DeletePointer(c)
    BY <1>1, <2>1, <2>2 DEF Next, CollectStep, WriteEr, GcEr, PutObject, Stops,
       ReadPointer, Refuse, Target, Sweep, SweepFindsNothing, ListPrefix,
       DeleteObject, Report, vars
  <2>4. PICK x \in cmd[c].names : pointer' = [pointer EXCEPT ![x] = None]
    BY <2>3 DEF DeletePointer
  <2>5. n = x /\ cmd[c].names # {} /\ cmd[c].pc = "delete"
    BY <1>1, <2>3, <2>4 DEF DurableInv, TypeOK, Commands, DeletePointer
  <2>6. Spares(cmd[c], n)
    BY <1>1 DEF DurableInv, CommandGood, Active
  <2> QED BY <2>4, <2>5, <2>6 DEF Spares
<1>2. DurableInv /\ [Next]_vars =>
        [\A n \in Names : pointer[n] # None /\ sound[n] /\ pointer'[n] = None
            => \E c \in Clients : /\ cmd[c].pc = "delete" /\ cmd[c].force
                                  /\ cmd[c].target = pointer[n]]_vars
  BY <1>1
<1> QED BY <1>2, DurableAlways, PTL DEF Spec, ClearsOnlyTarget
==============================================================================
