--------------------------------- MODULE Memory ---------------------------------
(***************************************************************************)
(* The memory of one scope: memory write, which reads a record, raises its *)
(* version and puts it through a temporary file (memory/write.py,          *)
(* store.py), and the loading of a pack's records for a turn of a session, *)
(* one file after the other and filtered by the retrieval policy           *)
(* (packs.py, policy.py, session_continuity.py). Writers are processes of  *)
(* their own; nothing keeps them apart, or from the reader.                *)
(***************************************************************************)
EXTENDS Naturals, Sequences

CONSTANTS
    Writers,        \* memory write commands that may be under way
    Keys,           \* keys of the scope
    Routes,         \* routes of turns
    Packs,          \* what memory_packs.yaml may declare
    Policies,       \* retrieval policies
    Races,          \* may two writers be between get and put at once?
    WriteBound,     \* bound on the number of writes of a behaviour
    Absent,         \* no file, no record
    Undeclared,     \* an included pack that is not declared
    Nested          \* an included pack that includes others

Sensitivity == {"standard", "elevated", "restricted"}

(* A record; created is the write that created it. Its value is left out.  *)
Record == [version : Nat \ {0}, created : 1..WriteBound, sensitivity : Sensitivity]

(* The session's pack: its keys, and the keys of the packs it includes.    *)
Pack == [keys : Seq(Keys), includes : Seq(Seq(Keys) \cup {Undeclared, Nested})]

Policy == [routes : SUBSET Routes, elevated : SUBSET Routes, restricted : SUBSET Routes]

ASSUME MemoryAssumption ==
    /\ WriteBound \in Nat /\ Races \subseteq BOOLEAN
    /\ Packs \subseteq Pack \cup {Absent} /\ Policies \subseteq Policy
    /\ Absent \notin Record \cup Pack \cup Keys
    /\ {Undeclared, Nested} \cap Seq(Keys) = {}

VARIABLES
    pack, policy, race,     \* the configuration
    file,       \* each key's record on disk
    tmp,        \* what each key's temporary file holds
    writes,     \* writes confirmed so far
    wpc,        \* where each writer stands
    wkey, wsens,            \* what it is asked to write
    rec,        \* the record it will put
    rpc,        \* where the turn's loading stands
    route,      \* the turn's route
    found,      \* the keys and records read so far
    missing,    \* declared keys without a record
    records,    \* what is handed to the turn, with its keys
    changed     \* history: did a record change since the loading began?

config == <<pack, policy, race>>
writer == <<writes, wpc, wkey, wsens, rec>>
reader == <<rpc, route, found, missing, records, changed>>
vars == <<config, file, tmp, writer, reader>>

Init ==
    /\ pack \in Packs /\ policy \in Policies /\ race \in Races
    /\ file = [k \in Keys |-> Absent] /\ tmp = [k \in Keys |-> Absent]
    /\ writes = 0
    /\ wpc = [w \in Writers |-> "idle"]
    /\ wkey = [w \in Writers |-> Absent]
    /\ wsens = [w \in Writers |-> "standard"]
    /\ rec = [w \in Writers |-> Absent]
    /\ rpc = "idle" /\ route \in Routes
    /\ found = <<>> /\ missing = 0 /\ records = <<>> /\ changed = FALSE

-----------------------------------------------------------------------------
(* memory write.                                                           *)

(* The arguments are valid; the user is asked to confirm.                  *)
Asks(w, k, s) ==
    /\ wpc[w] = "idle" /\ writes < WriteBound
    /\ wkey' = [wkey EXCEPT ![w] = k]
    /\ wsens' = [wsens EXCEPT ![w] = s]
    /\ wpc' = [wpc EXCEPT ![w] = "asked"]
    /\ UNCHANGED <<config, reader, file, tmp, writes, rec>>

Confirmed(w) ==
    /\ wpc[w] = "asked" /\ writes < WriteBound
    /\ writes' = writes + 1
    /\ wpc' = [wpc EXCEPT ![w] = "get"]
    /\ UNCHANGED <<config, reader, file, tmp, wkey, wsens, rec>>

(* Mutant: versions start at 0.                                            *)
NextRecordFromZero(existing, s) ==
    IF existing = Absent
    THEN [version |-> 0, created |-> writes, sensitivity |-> s]
    ELSE [version |-> existing.version + 1, created |-> existing.created,
          sensitivity |-> s]

(* The record after existing: version and created_at come from the file.   *)
NextRecord(existing, s) ==
    IF existing = Absent
    THEN [version |-> 1, created |-> writes, sensitivity |-> s]
    ELSE [version |-> existing.version + 1, created |-> existing.created,
          sensitivity |-> s]

Alone(w) == \A v \in Writers : v # w => wpc[v] \notin {"write", "replace"}

(* Mutant: a record that cannot be read counts as absent.                  *)
GetsOrNone(w) ==
    /\ wpc[w] = "get"
    /\ race \/ Alone(w)
    /\ \E existing \in {file[wkey[w]], Absent} :
           rec' = [rec EXCEPT ![w] = NextRecord(existing, wsens[w])]
    /\ wpc' = [wpc EXCEPT ![w] = "write"]
    /\ UNCHANGED <<config, reader, file, tmp, writes, wkey, wsens>>

Gets(w) ==
    /\ wpc[w] = "get"
    /\ race \/ Alone(w)
    /\ rec' = [rec EXCEPT ![w] = NextRecord(file[wkey[w]], wsens[w])]
    /\ wpc' = [wpc EXCEPT ![w] = "write"]
    /\ UNCHANGED <<config, reader, file, tmp, writes, wkey, wsens>>

Ends(w) ==
    /\ wpc' = [wpc EXCEPT ![w] = "idle"]
    /\ wkey' = [wkey EXCEPT ![w] = Absent]
    /\ wsens' = [wsens EXCEPT ![w] = "standard"]
    /\ rec' = [rec EXCEPT ![w] = Absent]

(* put: the temporary file, whose name all writers of the key share, is    *)
(* written and renamed over the record. DialogueSession looks into the     *)
(* same mechanism more closely.                                            *)
PutWrites(w) ==
    /\ wpc[w] = "write"
    /\ tmp' = [tmp EXCEPT ![wkey[w]] = rec[w]]
    /\ wpc' = [wpc EXCEPT ![w] = "replace"]
    /\ UNCHANGED <<config, reader, file, writes, wkey, wsens, rec>>

PutReplaces(w) ==
    /\ wpc[w] = "replace" /\ tmp[wkey[w]] # Absent
    /\ file' = [file EXCEPT ![wkey[w]] = tmp[wkey[w]]]
    /\ tmp' = [tmp EXCEPT ![wkey[w]] = Absent]
    /\ changed' = TRUE
    /\ Ends(w)
    /\ UNCHANGED <<config, writes, rpc, route, found, missing, records>>

(* Denied, an error of any step, a temporary file another writer renamed,  *)
(* or a kill: the command ends without a further effect.                   *)
WriteStops(w) ==
    /\ wpc[w] # "idle"
    /\ Ends(w)
    /\ UNCHANGED <<config, reader, file, tmp, writes>>

-----------------------------------------------------------------------------
(* load_session_memory.                                                    *)

(* resolve_keys: included packs first, in order; none may be undeclared or *)
(* include others.                                                         *)
Resolvable == \A i \in 1..Len(pack.includes) : pack.includes[i] \in Seq(Keys)

resolve_keys ==
    LET upto[i \in 0..Len(pack.includes)] ==
            IF i = 0 THEN <<>> ELSE upto[i - 1] \o pack.includes[i]
    IN upto[Len(pack.includes)] \o pack.keys

(* Mutant: standard records are everybody's.                               *)
can_access_standard(r, s) ==
    \/ s = "standard"
    \/ r \in policy.routes /\ s = "elevated" /\ r \in policy.elevated
    \/ r \in policy.routes /\ s = "restricted" /\ r \in policy.restricted

can_access(r, s) ==
    /\ r \in policy.routes
    /\ \/ s = "standard"
       \/ s = "elevated" /\ r \in policy.elevated
       \/ s = "restricted" /\ r \in policy.restricted

Found == [key : Keys, record : Record]

(* The elements of s that are in S, in their order. It is SelectSeq, but a *)
(* recursive function, of which facts can be proved.                       *)
Kept(s, S) ==
    LET upto[i \in 0..Len(s)] ==
            IF i = 0 THEN <<>>
            ELSE IF s[i] \in S THEN Append(upto[i - 1], s[i]) ELSE upto[i - 1]
    IN upto[Len(s)]

(* A turn begins to load its memory. Without the pack there is none, and a *)
(* pack that cannot be resolved raises.                                    *)
LoadBegins(r) ==
    /\ rpc \in {"idle", "done"}
    /\ route' = r
    /\ found' = <<>> /\ missing' = 0 /\ records' = <<>> /\ changed' = FALSE
    /\ rpc' = IF pack = Absent THEN "idle"
              ELSE IF Resolvable THEN "reading" ELSE "idle"
    /\ UNCHANGED <<config, file, tmp, writer>>

Position == Len(found) + missing + 1

(* list_by_keys reads one file after the other.                            *)
LoadReads ==
    /\ rpc = "reading" /\ Position <= Len(resolve_keys)
    /\ LET k == resolve_keys[Position] IN
       IF file[k] = Absent
       THEN missing' = missing + 1 /\ UNCHANGED found
       ELSE /\ found' = Append(found, [key |-> k, record |-> file[k]])
            /\ UNCHANGED missing
    /\ UNCHANGED <<config, file, tmp, writer, rpc, route, records, changed>>

(* filter_records judges each record by the sensitivity it was read with.  *)
LoadFilters ==
    /\ rpc = "reading" /\ Position > Len(resolve_keys)
    /\ records' = Kept(found, {f \in Found : can_access(route, f.record.sensitivity)})
    /\ rpc' = "done"
    /\ UNCHANGED <<config, file, tmp, writer, route, found, missing, changed>>

LoadFails ==
    /\ rpc = "reading"
    /\ rpc' = "idle"
    /\ found' = <<>> /\ missing' = 0
    /\ UNCHANGED <<config, file, tmp, writer, route, records, changed>>

-----------------------------------------------------------------------------
Write(w) ==
    \/ \E k \in Keys, s \in Sensitivity : Asks(w, k, s)
    \/ Confirmed(w) \/ Gets(w) \/ PutWrites(w) \/ PutReplaces(w) \/ WriteStops(w)

Load ==
    \/ \E r \in Routes : LoadBegins(r)
    \/ LoadReads \/ LoadFilters \/ LoadFails

Next == (\E w \in Writers : Write(w)) \/ Load

Spec == Init /\ [][Next]_vars

-----------------------------------------------------------------------------
TypeOK ==
    /\ pack \in Packs /\ policy \in Policies /\ race \in Races
    /\ file \in [Keys -> Record \cup {Absent}] /\ tmp \in [Keys -> Record \cup {Absent}]
    /\ writes \in 0..WriteBound
    /\ wpc \in [Writers -> {"idle", "asked", "get", "write", "replace"}]
    /\ wkey \in [Writers -> Keys \cup {Absent}]
    /\ wsens \in [Writers -> Sensitivity]
    /\ rec \in [Writers -> Record \cup {Absent}]
    /\ rpc \in {"idle", "reading", "done"} /\ route \in Routes
    /\ found \in Seq(Found) /\ missing \in Nat /\ records \in Seq(Found)
    /\ changed \in BOOLEAN

(* The records a turn is given are those its route may see, each by the    *)
(* sensitivity it had when it was read, though writers change records      *)
(* while the files are read; and when nothing changed, they are all of     *)
(* those, in declared order, and the counts the context reports account    *)
(* for every declared key.                                                 *)
LoadsWhatIsAllowed ==
    rpc = "done" =>
        /\ \A i \in 1..Len(records) :
               /\ can_access(route, records[i].record.sensitivity)
               /\ route \in policy.routes
        /\ Len(found) + missing = Len(resolve_keys)
        /\ ~changed =>
               LET stored == Kept(resolve_keys, {k \in Keys :
                        file[k] # Absent /\ can_access(route, file[k].sensitivity)})
               IN records = [i \in 1..Len(stored) |->
                                [key |-> stored[i], record |-> file[stored[i]]]]

(* MemoryRecord.version: "monotonically increasing; starts at 1". A write  *)
(* that nothing overtakes between its get and its put raises the version   *)
(* by one and keeps created_at, however long users take to confirm and     *)
(* wherever other writes failed or were killed.                            *)
VersionsIncrease ==
    [][~race => \A k \in Keys : file'[k] # file[k] =>
           IF file[k] = Absent
           THEN file'[k].version = 1
           ELSE /\ file'[k].version = file[k].version + 1
                /\ file'[k].created = file[k].created]_vars
=============================================================================
