----------------------------- MODULE DataStore -----------------------------
(***************************************************************************)
(* The desktop data store (plugins/data-store/src/desktop.rs): an instance *)
(* loads the file of its namespace once, keeps the map in memory, and      *)
(* every mutation writes the whole map to a temporary file and renames it  *)
(* over the old one.  Windows may refuse the rename, and then the file is  *)
(* copied over the old one.  The process may die at any step; what reached *)
(* the file system stays there.                                            *)
(*                                                                         *)
(* Stores are the instances opened on one namespace: the factory opens a   *)
(* new one for every client that asks, each with a lock of its own, all    *)
(* with the same two files.  Maps stands for the contents a map may have,  *)
(* so that a key written is a change from one of them to another.          *)
(***************************************************************************)
CONSTANTS
  Stores,
  Maps,
  Empty,      \* the map without keys
  Targets     \* the platforms considered, "windows" and "unix"

NotMaps == {"absent", "truncated", "partial"}

\* How Windows shares files between two handles is left out: there an
\* instance is alone with its files.
ASSUME DataStoreAssumption ==
  /\ Empty \in Maps
  /\ Maps \cap NotMaps = {}
  /\ Targets \subseteq {"windows", "unix"}
  /\ "windows" \in Targets => \A s, t \in Stores : s = t

VARIABLES
  file,    \* the contents of the file and of the temporary file
  mem,     \* values: the map an instance holds
  at,      \* where an instance is in mutate, which holds its lock
  writes,  \* the file an instance's open handle writes to
  told,    \* what the last mutation of an instance returned
  target   \* target_os of the build

vars == <<file, mem, at, writes, told, target>>

Content == Maps \cup NotMaps
Stage == {"down", "idle", "changed", "writing", "written", "copying", "copied"}

TypeOK ==
  /\ file \in [{"path", "tmp"} -> Content]
  /\ mem \in [Stores -> Maps]
  /\ at \in [Stores -> Stage]
  /\ writes \in [Stores -> {"path", "tmp", "nowhere"}]
  /\ told \in [Stores -> {"none", "ok", "error"}]
  /\ target \in Targets

Init ==
  /\ file = [n \in {"path", "tmp"} |-> "absent"]
  /\ mem = [s \in Stores |-> Empty]
  /\ at = [s \in Stores |-> "down"]
  /\ writes = [s \in Stores |-> "nowhere"]
  /\ told = [s \in Stores |-> "none"]
  /\ target \in Targets

-----------------------------------------------------------------------------
(* Opening an instance.                                                    *)

\* What load makes of a content: a file that is missing or has no bytes is
\* the empty map, one that was cut short does not decode.
Load(content) == IF content \in {"absent", "truncated"} THEN Empty ELSE content

\* The factory panics on a file that does not load, and there is no instance.
Open(s) ==
  /\ at[s] = "down"
  /\ file["path"] # "partial"
  /\ mem' = [mem EXCEPT ![s] = Load(file["path"])]
  /\ at' = [at EXCEPT ![s] = "idle"]
  /\ told' = [told EXCEPT ![s] = "none"]
  /\ UNCHANGED <<file, writes, target>>

-----------------------------------------------------------------------------
(* A mutation: the map changes first, then all of it is written.           *)

Mutate(s, m) ==
  /\ at[s] = "idle"
  /\ mem' = [mem EXCEPT ![s] = m]
  /\ at' = [at EXCEPT ![s] = "changed"]
  /\ UNCHANGED <<file, writes, told, target>>

\* Variant: an error of fs is dropped.
FailsQuietly(s) ==
  /\ at' = [at EXCEPT ![s] = "idle"]
  /\ told' = [told EXCEPT ![s] = "ok"]
  /\ writes' = [writes EXCEPT ![s] = "nowhere"]
  /\ UNCHANGED <<file, mem, target>>

\* The error is returned; the changed map and the files stay as they are.
Fails(s) ==
  /\ at' = [at EXCEPT ![s] = "idle"]
  /\ told' = [told EXCEPT ![s] = "error"]
  /\ writes' = [writes EXCEPT ![s] = "nowhere"]
  /\ UNCHANGED <<file, mem, target>>

PersistFails(s) ==
  /\ at[s] \in {"changed", "writing", "written", "copying", "copied"}
  /\ Fails(s)

\* Variant: the file is written in place.
CreateInPlace(s) ==
  /\ at[s] = "changed"
  /\ file' = [file EXCEPT !["path"] = "truncated"]
  /\ at' = [at EXCEPT ![s] = "writing"]
  /\ writes' = [writes EXCEPT ![s] = "path"]
  /\ UNCHANGED <<mem, told, target>>

\* fs::write opens the temporary file, which cuts it to nothing.
CreateTmp(s) ==
  /\ at[s] = "changed"
  /\ file' = [file EXCEPT !["tmp"] = "truncated"]
  /\ at' = [at EXCEPT ![s] = "writing"]
  /\ writes' = [writes EXCEPT ![s] = "tmp"]
  /\ UNCHANGED <<mem, told, target>>

\* The bytes go to the file that was opened, whatever its name is by now.
Wrote(s, content) ==
  file' = IF writes[s] = "nowhere" THEN file
          ELSE [file EXCEPT ![writes[s]] = content]

WriteSome(s) ==
  /\ at[s] = "writing"
  /\ Wrote(s, "partial")
  /\ UNCHANGED <<mem, at, writes, told, target>>

WriteRest(s) ==
  /\ at[s] = "writing"
  /\ Wrote(s, mem[s])
  /\ at' = [at EXCEPT ![s] = "written"]
  /\ writes' = [writes EXCEPT ![s] = "nowhere"]
  /\ UNCHANGED <<mem, told, target>>

\* A handle follows its file to the new name, and one of the file that was
\* replaced writes to a file without a name.
Follow(w) == IF w = "tmp" THEN "path" ELSE "nowhere"

Rename(s) ==
  /\ at[s] = "written"
  /\ file["tmp"] # "absent"
  /\ file' = [file EXCEPT !["path"] = file["tmp"], !["tmp"] = "absent"]
  /\ writes' = [t \in Stores |-> Follow(writes[t])]
  /\ at' = [at EXCEPT ![s] = "idle"]
  /\ told' = [told EXCEPT ![s] = "ok"]
  /\ UNCHANGED <<mem, target>>

-----------------------------------------------------------------------------
(* Windows: the rename is refused, and fs::copy takes its place.           *)

\* Variant: every failed rename is followed by a copy.
RenameRefusedAnywhere(s) ==
  /\ at[s] = "written"
  /\ file' = [file EXCEPT !["path"] = "truncated"]
  /\ at' = [at EXCEPT ![s] = "copying"]
  /\ UNCHANGED <<mem, writes, told, target>>

RenameRefused(s) ==
  /\ target = "windows"
  /\ at[s] = "written"
  /\ file' = [file EXCEPT !["path"] = "truncated"]
  /\ at' = [at EXCEPT ![s] = "copying"]
  /\ UNCHANGED <<mem, writes, told, target>>

CopySome(s) ==
  /\ at[s] = "copying"
  /\ file' = [file EXCEPT !["path"] = "partial"]
  /\ UNCHANGED <<mem, at, writes, told, target>>

CopyRest(s) ==
  /\ at[s] = "copying"
  /\ file' = [file EXCEPT !["path"] = file["tmp"]]
  /\ at' = [at EXCEPT ![s] = "copied"]
  /\ UNCHANGED <<mem, writes, told, target>>

RemoveTmp(s) ==
  /\ at[s] = "copied"
  /\ file' = [file EXCEPT !["tmp"] = "absent"]
  /\ at' = [at EXCEPT ![s] = "idle"]
  /\ told' = [told EXCEPT ![s] = "ok"]
  /\ UNCHANGED <<mem, writes, target>>

\* The process dies, between any two steps, with all of its instances.
Crash ==
  /\ \E s \in Stores : at[s] # "down"
  /\ at' = [s \in Stores |-> "down"]
  /\ writes' = [s \in Stores |-> "nowhere"]
  /\ UNCHANGED <<file, mem, told, target>>

StoreStep(s) ==
  \/ Open(s) \/ PersistFails(s)
  \/ CreateTmp(s) \/ WriteSome(s) \/ WriteRest(s) \/ Rename(s)
  \/ RenameRefused(s) \/ CopySome(s) \/ CopyRest(s) \/ RemoveTmp(s)

Next ==
  \/ \E s \in Stores : StoreStep(s)
  \/ \E s \in Stores, m \in Maps : Mutate(s, m)
  \/ Crash

Spec == Init /\ [][Next]_vars

-----------------------------------------------------------------------------
(* Properties.                                                             *)

\* A namespace's file is a whole map whenever the process dies, or is not
\* there yet, where a file can be renamed over another: "every mutation
\* flushes the whole map to disk atomically (temp + rename)", desktop.rs:66.
SavedWhole == target = "windows" \/ file["path"] \in Maps \cup {"absent"}

\* When a mutation has returned Ok, the file holds the instance's map, and
\* with it every change an earlier mutation could not write.
AcknowledgedIsSaved ==
  \A s \in Stores : at[s] = "idle" /\ told[s] = "ok" => file["path"] = mem[s]

TheStore == CHOOSE s \in Stores : TRUE

Durable == INSTANCE DurableMap WITH
  Torn <- "partial",
  shown <- mem[TheStore],
  saved <- Load(file["path"]),
  state <- CASE at[TheStore] = "down" -> "down"
             [] at[TheStore] = "idle" -> "idle"
             [] OTHER -> "busy",
  result <- told[TheStore],
  mayTear <- target = "windows"

\* An instance that is alone with its file is a durable map: reads show the
\* changes, an Ok means saved, an error loses nothing that was saved, and
\* a start finds the map saved last or the one being saved when the process
\* died; on Windows, where the copy that stands in for a refused rename is
\* cut short, it may find no map or an empty one instead.
KeepsDurable == Durable!Spec
=============================================================================
