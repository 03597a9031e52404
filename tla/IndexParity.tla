----------------------------- MODULE IndexParity -----------------------------
(***************************************************************************)
(* assert_registry_index_parity (network/registry/parity.py): the index    *)
(* facts of one BOM, read from the disk of this process and then over HTTP *)
(* from a Node, while executions are being registered.                     *)
(*                                                                         *)
(* An execution registers the locator of its data (LocatorIndex.put, which *)
(* rewrites the list of the data id whether or not it changes) and then    *)
(* its BOM, by the steps of BomRegistry.  The check makes five reads of    *)
(* the disk and four GETs, and executions go on between any two of them.   *)
(* The Node that answers has the home that the check reads, or another     *)
(* one: a copy of it that was made earlier.                                *)
(***************************************************************************)
EXTENDS BomRegistry, Functions

CONSTANTS Hosts,   \* the base URLs under which a Node registers its locators
          Asked,   \* the BOMs whose facts a check may be about
          None

ASSUME ParityAssumption == Asked \subseteq Boms /\ None \notin Boms

VARIABLES
    locators,   \* [Datas -> list file]: by-content/<id>.json
    lister,     \* [Writers -> ListerState]: the locator put before each BOM's put
    mirror,     \* None, or the home of the Node that answers, when it is another
    check       \* the check, in progress or ended

parityVars == <<vars, locators, lister, mirror, check>>

Absent     == [file |-> "absent", ids |-> << >>, size |-> 0]
IdleLister == [pc |-> "idle", bom |-> NoBom, host |-> None, seen |-> << >>]

\* What the registry routes and the lookups read.
Home   == [record |-> record, index |-> index, locators |-> locators]
Served == IF mirror = None THEN Home ELSE mirror

------------------------------------------------------------------------------
(***************************************************************************)
(* Runtime.execute: the locator of the data, then the BOM                  *)
(***************************************************************************)
\* LocatorIndex.put reads the list; a torn one raises and the execution fails.  An
\* execution has a BOM of its own.
ReadLocators(w, b, h) ==
    /\ lister[w].pc = "idle" /\ writer[w].pc = "idle"
    /\ record[b] = "absent" /\ \A v \in Writers : lister[v].bom # b
    /\ locators[DataOf[b]].file # "torn"
    /\ lister' = [lister EXCEPT ![w] = [pc |-> "open", bom |-> b, host |-> h,
                                    seen |-> locators[DataOf[b]].ids]]
    /\ UNCHANGED <<vars, locators>>

OpenLocators(w) ==
    /\ lister[w].pc = "open"
    /\ locators' = [locators EXCEPT ![DataOf[lister[w].bom]] = Truncated]
    /\ lister' = [lister EXCEPT ![w].pc = "write"]
    /\ UNCHANGED vars

\* A URI that is listed is not listed again, but the file is rewritten.
Relisted(h, seen) == IF InList(h, seen) THEN seen ELSE <<h>> \o seen

WriteLocators(w) ==
    /\ lister[w].pc = "write"
    /\ locators' = [locators EXCEPT ![DataOf[lister[w].bom]] =
                       Overwrite(@, Relisted(lister[w].host, lister[w].seen))]
    /\ lister' = [lister EXCEPT ![w].pc = "put"]
    /\ UNCHANGED vars

\* BomRegistry.put; no list has a new BOM already.
PutBom(w) ==
    /\ lister[w].pc = "put" /\ OpenRecord(w, lister[w].bom)
    /\ lister' = [lister EXCEPT ![w] = IdleLister]
    /\ UNCHANGED locators

PutGoesOn(w) ==
    /\ \/ WriteRecord(w) \/ ReadIndex(w) \/ PutRaises(w) \/ OpenIndex(w) \/ WriteIndex(w)
    /\ UNCHANGED <<locators, lister>>

\* The Node dies: its executions are gone, its files stay.
NodeDies ==
    /\ Crash
    /\ lister' = [w \in Writers |-> IdleLister]
    /\ UNCHANGED locators

\* What the check asks about has changed on the disk since it began.
FilesOf == [b \in Boms |-> <<record[b], index[DataOf[b]], index[OrderOf[b]],
                            locators[DataOf[b]]>>]
Touching == check' = [check EXCEPT !.touched =
                @ \/ (check.bom \in Boms /\ FilesOf'[check.bom] # FilesOf[check.bom])]

\* A check in progress goes on when the Node is back, or fails.
Ended == check.pc \in {"idle", "ok", "failed"}
Surviving == \E pc \in {check.pc, IF Ended THEN check.pc ELSE "failed"} :
                check' = [check EXCEPT !.touched = TRUE, !.pc = pc]

\* The Node that the check will ask has a home of its own, a copy of this one.
CopyHome ==
    /\ check.pc = "idle" /\ mirror = None /\ mirror' = Home
    /\ UNCHANGED <<vars, locators, lister, check>>

------------------------------------------------------------------------------
(***************************************************************************)
(* assert_registry_index_parity                                            *)
(***************************************************************************)
DataKey  == DataOf[check.bom]
OrderKey == OrderOf[check.bom]

\* One read of the check: it raises, or the check goes on.
Reads(pc, passes, next) ==
    /\ check.pc = pc
    /\ check' = IF passes THEN next ELSE [check EXCEPT !.pc = "failed"]
    /\ UNCHANGED <<vars, locators, lister, mirror>>

\* registry.get: a record names its data and its Order.  allow_ambiguous is the
\* caller's.
GetRecord(b, ambiguous) ==
    /\ check.pc = "idle"
    /\ check' = [pc |-> IF record[b] = "whole" THEN "data" ELSE "failed",
                 bom |-> b, ambiguous |-> ambiguous, data |-> << >>, order |-> << >>,
                 uris |-> {}, touched |-> FALSE, known |-> returned, asOf |-> << >>]
    /\ UNCHANGED <<vars, locators, lister, mirror>>

\* lookup_bom; json.loads of a torn file raises.
LookupBom ==
    Reads("data", index[DataKey].file # "torn",
          [check EXCEPT !.pc = "unique", !.data = index[DataKey].ids])

\* resolve_unique_bom reads the list again; allow_ambiguous excuses what it
\* raises if the list read before has the BOM.
Unique(ids) ==
    \/ Len(ids) = 1 /\ ids[1] = check.bom
    \/ check.ambiguous /\ InList(check.bom, check.data)

ResolveUnique ==
    Reads("unique", index[DataKey].file # "torn" /\ Unique(index[DataKey].ids),
          [check EXCEPT !.pc = "order"])

LookupByOrder ==
    Reads("order", index[OrderKey].file # "torn",
          [check EXCEPT !.pc = "uris", !.order = index[OrderKey].ids])

LookupUris ==
    Reads("uris", locators[DataKey].file # "torn",
          [check EXCEPT !.pc = "get_bom", !.uris = Range(locators[DataKey].ids)])

\* The four GETs, each held against what the disk gave.  The code compares after
\* the last of them; a check that fails either way fails.  The routes answer 400
\* for a torn file and 404 for an absent record or locator list.
GetBom ==
    Reads("get_bom", Served.record[check.bom] = "whole", [check EXCEPT !.pc = "get_data"])

SameList(file, list) == file.file # "torn" /\ file.ids = list

\* What by-order lists, or will list once the write in progress is done, is kept
\* to compare it later.
ListedAsOf(key) == IF mirror = None THEN VisibleList(key) ELSE mirror.index[key].ids

GetByData ==
    Reads("get_data", SameList(Served.index[DataKey], check.data),
          [check EXCEPT !.pc = "get_order", !.asOf = ListedAsOf(OrderKey)])

\* Mutant of GetByOrder: the answer must list the BOM, no more.
GetByOrderListed ==
    Reads("get_order", /\ Served.index[OrderKey].file # "torn"
                       /\ InList(check.bom, Served.index[OrderKey].ids),
          [check EXCEPT !.pc = "get_uris"])

GetByOrder ==
    Reads("get_order", /\ SameList(Served.index[OrderKey], check.order)
                       /\ InList(check.bom, check.order),
          [check EXCEPT !.pc = "get_uris"])

\* Mutant of GetByContent: any answer will do.
GetByContentAny ==
    Reads("get_uris", Served.locators[DataKey].file = "whole", [check EXCEPT !.pc = "ok"])

\* Set-wise: the order may differ.
GetByContent ==
    Reads("get_uris", /\ Served.locators[DataKey].file = "whole"
                      /\ Range(Served.locators[DataKey].ids) = check.uris,
          [check EXCEPT !.pc = "ok"])

------------------------------------------------------------------------------
ParityInit ==
    /\ Init
    /\ locators = [d \in Datas |-> Absent]
    /\ lister = [w \in Writers |-> IdleLister]
    /\ mirror = None
    /\ check = [pc |-> "idle", bom |-> None, ambiguous |-> FALSE, data |-> << >>,
                order |-> << >>, uris |-> {}, touched |-> FALSE, known |-> {}, asOf |-> << >>]

Registers(w) ==
    \/ \E b \in Boms, h \in Hosts : ReadLocators(w, b, h)
    \/ OpenLocators(w) \/ WriteLocators(w) \/ PutBom(w) \/ PutGoesOn(w)

Checks ==
    \/ \E b \in Asked, ambiguous \in BOOLEAN : GetRecord(b, ambiguous)
    \/ LookupBom \/ ResolveUnique \/ LookupByOrder \/ LookupUris
    \/ GetBom \/ GetByData \/ GetByOrder \/ GetByContent

ParityNext ==
    \/ \E w \in Writers : Registers(w) /\ Touching /\ UNCHANGED mirror
    \/ NodeDies /\ Surviving /\ UNCHANGED mirror
    \/ CopyHome
    \/ Checks

ParitySpec == ParityInit /\ [][ParityNext]_parityVars

------------------------------------------------------------------------------
(***************************************************************************)
(* Properties                                                              *)
(***************************************************************************)

\* Both homes have the BOM and the same facts about it, and it is found by its
\* Order and its data, by its data alone unless ambiguity is allowed.
Agree ==
    LET b == check.bom
        Same(k) == /\ index[k].file # "torn" /\ Served.index[k].file # "torn"
                   /\ Served.index[k].ids = index[k].ids
                   /\ InList(b, index[k].ids)
        here  == locators[DataKey]
        there == Served.locators[DataKey]
    IN  /\ record[b] = "whole" /\ Served.record[b] = "whole"
        /\ Same(DataKey) /\ Same(OrderKey)
        /\ here.file # "torn" /\ there.file = "whole" /\ Range(here.ids) = Range(there.ids)
        /\ ~ check.ambiguous => Len(index[DataKey].ids) = 1

\* When nothing that concerns the BOM is written from its first read to its last,
\* the check is exact: it passes if and only if the two homes agree, whatever
\* crashes and lost updates have left in them and however old a copy the Node
\* answers from.
ParityExact ==
    check.pc \in {"ok", "failed"} /\ ~ check.touched => (check.pc = "ok" <=> Agree)

\* When executions are registered while it runs, one at a time, a check that
\* passes has still not put two moments together: when by-data was asked, by-order
\* of the home that answers listed what the check found there before and after, so
\* that both lists were there at once; they leave out no execution of that data or
\* of that Order that was registered before the check began; and resolve_unique_bom
\* lets pass, unless ambiguity is allowed, only the sole one of its data.
ParityIsSnapshot ==
    check.pc = "ok" =>
        /\ check.order = check.asOf
        /\ \A b \in check.known :
              /\ DataOf[b] = DataKey => InList(b, check.data)
              /\ OrderOf[b] = OrderKey => InList(b, check.order)
              /\ DataOf[b] = DataKey /\ ~ check.ambiguous => b = check.bom
==============================================================================
