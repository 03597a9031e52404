------------------------------ MODULE DurableER ------------------------------
(***************************************************************************)
(* The durable Entity Relationship store (obj_store_utils.py): objects     *)
(* under structures/<id>/er/<name>/, pointers er/current/<name>, and the   *)
(* commands that operators run against them, side by side and with nothing *)
(* but the object store between them: write-er, promote-er and the         *)
(* pointer-aware garbage collection gc-er.                                 *)
(*                                                                         *)
(* One request to the object store is one step: a PUT, a DELETE and a      *)
(* listing are atomic.  A prefix exists while it holds an object.          *)
(* list-er and resolve-er only read, and are left out.                     *)
(***************************************************************************)
EXTENDS Naturals, FiniteSets

CONSTANTS Clients,       \* processes that run the commands
          Ids,           \* structure ids
          Names,         \* Entity Relationship names
          Files,         \* the files of the local directory that is uploaded
          MaxCommands,   \* bound on the commands started
          SwallowedErrors, \* the listings whose errors are met
          None

ASSUME DurableAssumption ==
    /\ None \notin Ids \cup Names
    /\ MaxCommands \in Nat
    /\ SwallowedErrors \subseteq {"roots", "ids", "prefix"}

VARIABLES
    objects,   \* SUBSET (Ids \X Names \X Files): what the structures/ prefix holds
    pointer,   \* [Names -> Ids or None]: er/current/<name>
    cmd,       \* [Clients -> Commands]
    sound,     \* history: [Names -> BOOLEAN], see Promote
    commands

vars == <<objects, pointer, cmd, sound, commands>>

Objects   == Ids \X Names \X Files
Under(i)  == {o \in objects : o[1] = i}
Whole(i, n) == \A f \in Files : <<i, n, f>> \in objects
NoPointers  == [n \in Names |-> None]

\* target, force, delete: the arguments of gc_er_prefixes.  names: pointers
\* still to read, then to clear.  refs: the pointers read.  cands: prefixes
\* still to delete.  todo: objects still to put or to delete.  quiet: history,
\* nobody else was active and no error was swallowed since the command began.
Commands == [pc : {"idle", "write", "read", "delete", "done"},
             target : Ids \cup {None}, force : BOOLEAN, delete : BOOLEAN,
             names : SUBSET Names, refs : [Names -> Ids \cup {None}],
             cands : SUBSET Ids, todo : SUBSET Objects, quiet : BOOLEAN]

Idle == [pc |-> "idle", target |-> None, force |-> FALSE, delete |-> FALSE,
         names |-> {}, refs |-> NoPointers, cands |-> {}, todo |-> {},
         quiet |-> FALSE]

Running(c)    == cmd[c].pc \in {"write", "read", "delete"}
Collecting(c) == cmd[c].pc \in {"read", "delete"}

Init == /\ objects = {} /\ pointer = NoPointers
        /\ cmd = [c \in Clients |-> Idle]
        /\ sound = [n \in Names |-> FALSE]
        /\ commands = 0

\* c starts a command, which disturbs everybody else's.
Start(c, m) ==
    /\ ~ Running(c) /\ commands < MaxCommands
    /\ commands' = commands + 1
    /\ cmd' = [d \in Clients |-> IF d = c THEN m ELSE [cmd[d] EXCEPT !.quiet = FALSE]]

Become(c, m) == cmd' = [cmd EXCEPT ![c] = m] /\ UNCHANGED commands

------------------------------------------------------------------------------
(***************************************************************************)
(* write-er and promote-er                                                 *)
(***************************************************************************)

\* write_er_objects walks the local directory and puts one file at a time.
WriteEr(c, i, n) ==
    /\ Start(c, [Idle EXCEPT !.pc = "write", !.todo = {<<i, n, f>> : f \in Files}])
    /\ UNCHANGED <<objects, pointer, sound>>

PutObject(c) ==
    /\ cmd[c].pc = "write"
    /\ \E o \in cmd[c].todo :
          LET rest == cmd[c].todo \ {o} IN
          /\ objects' = objects \cup {o}
          /\ Become(c, IF rest = {} THEN Idle ELSE [cmd[c] EXCEPT !.todo = rest])
    /\ UNCHANGED <<pointer, sound>>

\* promote_er_pointer puts the pointer, and does not look at what it names.
\* sound: it named a whole Entity Relationship and no collection was going on.
PromoteEr(c, i, n) ==
    /\ Start(c, Idle)
    /\ pointer' = [pointer EXCEPT ![n] = i]
    /\ sound' = [sound EXCEPT ![n] = Whole(i, n) /\ \A d \in Clients : ~ Collecting(d)]
    /\ UNCHANGED objects

------------------------------------------------------------------------------
(***************************************************************************)
(* gc-er                                                                   *)
(***************************************************************************)
\* Mutant of Pointing: every pointer counts as pointing.
EveryPointer(refs, target) == {n \in Names : refs[n] # None}

Referenced(refs)       == {refs[n] : n \in Names} \ {None}
Pointing(refs, target) == {n \in Names : refs[n] = target}

\* list_er_current_pointers lists the names first; an error of that listing
\* reads as no pointers at all, and no pointer is sound after it.
GcEr(c, target, force, delete) ==
    /\ \E swallowed \in {FALSE, "roots" \in SwallowedErrors} :
          /\ Start(c, [Idle EXCEPT !.pc = "read", !.target = target, !.force = force,
                          !.delete = delete,
                          !.names = {n \in Names : pointer[n] # None /\ ~ swallowed},
                          !.quiet = ~ swallowed /\ \A d \in Clients : ~ Running(d)])
          /\ sound' = [n \in Names |-> sound[n] /\ ~ (swallowed /\ delete)]
    /\ UNCHANGED <<objects, pointer>>

\* Each pointer is then read; one that has gone since raises (Stops).
ReadPointer(c) ==
    /\ cmd[c].pc = "read"
    /\ \E n \in cmd[c].names :
          /\ pointer[n] # None
          /\ Become(c, [cmd[c] EXCEPT !.names = @ \ {n}, !.refs[n] = pointer[n]])
    /\ UNCHANGED <<objects, pointer, sound>>

\* RuntimeError: the target is referenced and force was not given.
Refused(c) == cmd[c].target # None /\ ~ cmd[c].force
                 /\ Pointing(cmd[c].refs, cmd[c].target) # {}

Refuse(c) ==
    /\ cmd[c].pc = "read" /\ cmd[c].names = {} /\ Refused(c)
    /\ Become(c, Idle)
    /\ UNCHANGED <<objects, pointer, sound>>

\* A targeted collection, or a dry run of it.
Target(c) ==
    /\ cmd[c].pc = "read" /\ cmd[c].names = {}
    /\ cmd[c].target # None /\ ~ Refused(c)
    /\ Become(c, IF ~ cmd[c].delete THEN Idle
                 ELSE [cmd[c] EXCEPT !.pc = "delete", !.cands = {cmd[c].target},
                          !.names = IF cmd[c].force
                                    THEN Pointing(cmd[c].refs, cmd[c].target) ELSE {}])
    /\ UNCHANGED <<objects, pointer, sound>>

\* list_structure_ids, less the referenced ones; an error reads as no ids.
Sweep(c) ==
    /\ cmd[c].pc = "read" /\ cmd[c].names = {} /\ cmd[c].target = None
    /\ Become(c, IF ~ cmd[c].delete THEN Idle
                 ELSE [cmd[c] EXCEPT !.pc = "delete",
                          !.cands = {o[1] : o \in objects} \ Referenced(cmd[c].refs)])
    /\ UNCHANGED <<objects, pointer, sound>>

SweepFindsNothing(c) ==
    /\ "ids" \in SwallowedErrors
    /\ cmd[c].pc = "read" /\ cmd[c].names = {} /\ cmd[c].target = None /\ cmd[c].delete
    /\ Become(c, [cmd[c] EXCEPT !.pc = "delete", !.quiet = FALSE])
    /\ UNCHANGED <<objects, pointer, sound>>

\* _delete_pointer clears the pointer if it is still there, whatever it names
\* by now.  With force all of this comes before the prefix.
DeletePointer(c) ==
    /\ cmd[c].pc = "delete"
    /\ \E n \in cmd[c].names :
          /\ pointer' = [pointer EXCEPT ![n] = None]
          /\ Become(c, [cmd[c] EXCEPT !.names = @ \ {n}])
    /\ UNCHANGED <<objects, sound>>

\* Mutant of ListPrefix: the prefix is deleted before the pointers are cleared.
PrefixBeforePointers(c) ==
    /\ cmd[c].pc = "delete" /\ cmd[c].todo = {}
    /\ \E i \in cmd[c].cands :
          Become(c, [cmd[c] EXCEPT !.cands = @ \ {i}, !.todo = Under(i)])
    /\ UNCHANGED <<objects, pointer, sound>>

\* Mutant of ListPrefix: the listing is not recursive.
OneDirectory(c) ==
    /\ cmd[c].pc = "delete" /\ cmd[c].names = {} /\ cmd[c].todo = {}
    /\ \E i \in cmd[c].cands : \E n \in Names :
          Become(c, [cmd[c] EXCEPT !.cands = @ \ {i},
                        !.todo = {o \in Under(i) : o[2] = n}])
    /\ UNCHANGED <<objects, pointer, sound>>

\* _delete_prefix lists the objects under the prefix and deletes one by one.
\* An error of the listing reads as an empty prefix; one that has gone since
\* raises (Stops).
ListPrefix(c) ==
    /\ cmd[c].pc = "delete" /\ cmd[c].names = {} /\ cmd[c].todo = {}
    /\ \E i \in cmd[c].cands :
          \/ Become(c, [cmd[c] EXCEPT !.cands = @ \ {i}, !.todo = Under(i)])
          \/ /\ "prefix" \in SwallowedErrors
             /\ Become(c, [cmd[c] EXCEPT !.cands = @ \ {i}, !.quiet = FALSE])
    /\ UNCHANGED <<objects, pointer, sound>>

DeleteObject(c) ==
    /\ cmd[c].pc = "delete"
    /\ \E o \in cmd[c].todo \cap objects :
          /\ objects' = objects \ {o}
          /\ Become(c, [cmd[c] EXCEPT !.todo = @ \ {o}])
    /\ UNCHANGED <<pointer, sound>>

\* The command prints the prefixes it deleted.
Report(c) ==
    /\ cmd[c].pc = "delete"
    /\ cmd[c].names = {} /\ cmd[c].todo = {} /\ cmd[c].cands = {}
    /\ Become(c, [cmd[c] EXCEPT !.pc = "done"])
    /\ UNCHANGED <<objects, pointer, sound>>

\* A request to the object store fails and the command raises, or it is killed.
Stops(c) ==
    /\ Running(c)
    /\ Become(c, Idle)
    /\ UNCHANGED <<objects, pointer, sound>>

------------------------------------------------------------------------------
CollectStep(c) ==
    \/ ReadPointer(c) \/ Refuse(c) \/ Target(c) \/ Sweep(c) \/ SweepFindsNothing(c)
    \/ DeletePointer(c) \/ ListPrefix(c) \/ DeleteObject(c) \/ Report(c)

Next == \E c \in Clients :
    \/ \E i \in Ids, n \in Names : WriteEr(c, i, n) \/ PromoteEr(c, i, n)
    \/ \E t \in Ids \cup {None}, force, delete \in BOOLEAN : GcEr(c, t, force, delete)
    \/ PutObject(c) \/ CollectStep(c) \/ Stops(c)

Spec == Init /\ [][Next]_vars

------------------------------------------------------------------------------
(***************************************************************************)
(* Properties                                                              *)
(***************************************************************************)

\* Every variable stays in its type.
TypeOK ==
    /\ objects \subseteq Objects
    /\ pointer \in [Names -> Ids \cup {None}]
    /\ cmd \in [Clients -> Commands]
    /\ sound \in [Names -> BOOLEAN]
    /\ commands \in 0 .. MaxCommands

\* "Roots are er/current/* pointers": a pointer that was promoted over a whole
\* Entity Relationship, with no collection in progress, names a whole one for
\* as long as it is there, whatever collections, forced ones too, and writes
\* run side by side and wherever they stop, and although the other listings of
\* a collection swallow their errors.  It is lost only to a collection that
\* could not list the pointers and took that for having none.
PointerIntact == \A n \in Names :
    pointer[n] # None /\ sound[n] => Whole(pointer[n], n)

\* Such a pointer goes away only in a forced collection of the structure that
\* it names: no other collection clears it.
ClearsOnlyTarget ==
    [][ \A n \in Names :
          pointer[n] # None /\ sound[n] /\ pointer'[n] = None
            => \E c \in Clients : /\ cmd[c].pc = "delete" /\ cmd[c].force
                                  /\ cmd[c].target = pointer[n] ]_vars

\* A collection that ran alone and reported has left no garbage: nothing under
\* the target, or nothing under a prefix that no pointer names.
CollectionComplete == \A c \in Clients :
    cmd[c].pc = "done" /\ cmd[c].quiet =>
        \A o \in objects : /\ o[1] # cmd[c].target
                           /\ cmd[c].target = None => \E n \in Names : pointer[n] = o[1]
==============================================================================
