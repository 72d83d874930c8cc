---------------------------- MODULE BiometricVault ----------------------------
(***************************************************************************)
(* The desktop backends of the biometric plugin (plugins/biometric,        *)
(* src/desktop): calls that store, read, delete and look for the secret of *)
(* one alias, or only verify the user, on Windows (a file sealed with a    *)
(* key of Windows Hello), macOS (a keychain item) and Linux (a keyring     *)
(* item behind a fingerprint check).                                       *)
(*                                                                         *)
(* Each call is a task of its own, between two awaits one step, or one for *)
(* each call of the file system: nothing keeps two calls on the alias      *)
(* apart.  The secret a call stores is the call itself, and so is the name *)
(* of a file it creates.                                                   *)
(***************************************************************************)
EXTENDS Naturals, FiniteSets

CONSTANTS
  Calls,
  Platforms,     \* "windows", "macos", "linux"
  MaxKeys,       \* Hello keys that are ever created
  MaxTroubles,   \* restarts of the app and resets of Hello
  MaxCancels,    \* calls that are cancelled
  None

Ops == {"store", "read", "delete", "has", "authenticate"}
Answers == {"ok", "there", "absent", "not_found", "invalidated", "cancelled", "error"}
Torn == [secret |-> None, key |-> 0]  \* what two writers made of one file

VARIABLES
  platform,
  op, pc, answer,  \* what a call does, where it is and how it ended
  got,             \* what a call holds: a file it writes or has read, a secret
  signed,          \* the Hello key a call has had sign
  cancelled,       \* calls that were cancelled
  file, staging,   \* Windows: the vault file and the one it is renamed from
  disk,            \* Windows: what is in each file, None in an empty one
  key, keys,       \* Windows: the Hello key of the alias, keys created so far
  dialogs,         \* Windows: Hello dialogs of calls that ended
  item,            \* macOS, Linux: the item
  claimed,         \* Linux: the call that has claimed the reader
  scanning,        \* Linux: whether the reader verifies
  matched,         \* calls whose user was verified
  troubles,
  may,             \* what the vault may hold, by what was answered
  beside           \* what else it may hold by what ran beside each call

callVars == <<op, pc, answer, got, signed, cancelled, matched>>
helloVars == <<file, staging, disk, key, keys, dialogs>>
readerVars == <<claimed, scanning>>
mayVars == <<may, beside>>
vars == <<platform, callVars, helloVars, item, readerVars, troubles, mayVars>>

Files == [secret : Calls, key : 1..MaxKeys]

VaultAssumption ==
  /\ MaxKeys \in Nat /\ MaxTroubles \in Nat /\ MaxCancels \in Nat
  /\ Platforms \subseteq {"windows", "macos", "linux"}
  /\ None \notin Calls \cup Ops \cup Answers \cup Files \cup {Torn}
  /\ Torn \notin Calls

Running == {c \in Calls : pc[c] \notin {"new", "done", "dead"}}
Writers == {c \in Running : op[c] \in {"store", "delete"}}
Storing == {c \in Writers : op[c] = "store"}

Contents == Calls \cup {None, Torn}

TypeOK ==
  /\ platform \in Platforms
  /\ \A c \in Calls :
       /\ op[c] \in Ops \cup {None} /\ answer[c] \in Answers \cup {None}
       /\ got[c] \in Files \cup Calls \cup {None, Torn} /\ signed[c] \in 0..MaxKeys
  /\ file \in Calls \cup {None} /\ staging \in Calls \cup {None}
  /\ \A c \in Calls : disk[c] \in Files \cup {None, Torn} /\ beside[c] \subseteq Contents
  /\ key \in 0..MaxKeys /\ keys \in 0..MaxKeys /\ dialogs \subseteq Calls
  /\ item \in Calls \cup {None} /\ claimed \in Calls \cup {None} /\ scanning \in BOOLEAN
  /\ may \subseteq Contents /\ troubles \in 0..MaxTroubles

Init ==
  /\ platform \in Platforms
  /\ op = [c \in Calls |-> None] /\ pc = [c \in Calls |-> "new"]
  /\ answer = [c \in Calls |-> None] /\ got = [c \in Calls |-> None]
  /\ signed = [c \in Calls |-> 0] /\ cancelled = {} /\ matched = {}
  /\ file = None /\ staging = None /\ disk = [c \in Calls |-> None]
  /\ key = 0 /\ keys = 0 /\ dialogs = {}
  /\ item = None /\ claimed = None /\ scanning = FALSE
  /\ troubles = 0 /\ may = {None} /\ beside = [c \in Calls |-> {}]
-----------------------------------------------------------------------------
At(c, step) == pc[c] = step /\ UNCHANGED <<platform, op, cancelled, troubles>>
Goes(c, step) == pc' = [pc EXCEPT ![c] = step] /\ UNCHANGED answer
Ends(c, with) == pc' = [pc EXCEPT ![c] = "done"] /\ answer' = [answer EXCEPT ![c] = with]

\* What a call that writes leaves once it has done so.
Outcome(c) == IF op[c] = "store" THEN c ELSE None

\* The calls that run beside are to reckon with what may be there from now on.
Tells(others, what) ==
  beside' = [d \in Calls |-> IF d \in others THEN beside[d] \cup what ELSE beside[d]]

MayBe(others, what) == may' = may \cup what /\ Tells(others, what)

\* A call that wrote has answered: the vault holds that, or what a call beside it left.
Acknowledges(c) ==
  LET now == beside[c] \cup {Outcome(c)}
  IN  may' = now /\ Tells(Running \ {c}, now)

\* What a store that starts may put there.  Two of them on Windows share the
\* staged file and may each replace the other's key.
Puts(c, o) ==
  IF o # "store" THEN {}
  ELSE {c} \cup (IF platform = "windows" /\ Storing # {} THEN {None, Torn} ELSE {})

\* What the calls under way may leave when it is started.
Underway == {Outcome(d) : d \in Writers} \cup UNION {beside[d] : d \in Writers}

Starts(c, o, step) ==
  /\ pc[c] = "new"
  /\ op' = [op EXCEPT ![c] = o] /\ Goes(c, step)
  /\ may' = may \cup Puts(c, o)
  /\ beside' = [d \in Calls |->
                  IF d = c
                  THEN CASE o = "read" -> may
                         [] o \in {"store", "delete"} -> Underway \cup (Puts(c, o) \ {c})
                         [] OTHER -> {}
                  ELSE IF d \in Running THEN beside[d] \cup Puts(c, o) ELSE beside[d]]
  /\ UNCHANGED <<platform, got, signed, cancelled, matched, helloVars, item, readerVars, troubles>>

First ==
  CASE platform = "windows" ->
         [store |-> "open", read |-> "read_file", delete |-> "discard", has |-> "is_file",
          authenticate |-> "consent"]
    [] platform = "macos" ->
         [store |-> "delete_item", read |-> "copy_data", delete |-> "delete_item",
          has |-> "exists", authenticate |-> "consent"]
    [] platform = "linux" ->
         [store |-> "claim", read |-> "contains", delete |-> "find", has |-> "contains",
          authenticate |-> "claim"]

Start(c) == \E o \in Ops : Starts(c, o, First[o])

\* The runtime fires the call's token; what waits on it sees that with its next poll.
Cancel(c) ==
  /\ c \in Running \ cancelled /\ Cardinality(cancelled) < MaxCancels
  /\ op[c] \in {"store", "read", "authenticate"}
  /\ cancelled' = cancelled \cup {c}
  /\ UNCHANGED <<platform, op, pc, answer, got, signed, matched, helloVars, item, readerVars,
                 troubles, mayVars>>
-----------------------------------------------------------------------------
(* Windows.  complete() ends a call that is cancelled while it waits; the  *)
(* dialog that asks for a new key may stay up.                             *)

HelloOnly == UNCHANGED <<item, readerVars>>

Waits == {"open", "create", "sign", "open_read", "consent"}

complete_cancelled(c) ==
  /\ platform = "windows" /\ c \in cancelled /\ pc[c] \in Waits
  /\ At(c, pc[c]) /\ Ends(c, "cancelled")
  /\ \/ UNCHANGED dialogs
     \/ pc[c] = "create" /\ dialogs' = dialogs \cup {c}
  /\ UNCHANGED <<got, signed, matched, file, staging, disk, key, keys, mayVars>> /\ HelloOnly

\* The user answers the dialog of a call that is gone: the key is replaced
\* under whatever was stored since.
StaleDialog(c) ==
  /\ c \in dialogs /\ keys < MaxKeys
  /\ dialogs' = dialogs \ {c} /\ keys' = keys + 1 /\ key' = keys + 1
  /\ MayBe(Running, {None})
  /\ UNCHANGED <<platform, callVars, file, staging, disk, troubles>> /\ HelloOnly

\* Any status but success has the key replaced.
open_or_create(c) ==
  /\ At(c, "open")
  /\ \/ key # 0 /\ Goes(c, "sign") /\ signed' = [signed EXCEPT ![c] = key]
     \/ Goes(c, "create") /\ UNCHANGED signed
  /\ UNCHANGED <<got, matched, helloVars, mayVars>> /\ HelloOnly

RequestCreate(c) ==
  /\ At(c, "create")
  /\ \/ /\ keys < MaxKeys /\ keys' = keys + 1 /\ key' = keys + 1
        /\ signed' = [signed EXCEPT ![c] = keys + 1]
        /\ MayBe(Running \ {c}, {None})
        /\ Goes(c, "sign")
     \/ Ends(c, "error") /\ UNCHANGED <<signed, key, keys, mayVars>>
  /\ UNCHANGED <<got, matched, file, staging, disk, dialogs>> /\ HelloOnly

\* Signing verifies the user.  A key that was replaced cannot sign.
cipher(c) ==
  /\ At(c, "sign")
  /\ \/ /\ signed[c] = key /\ matched' = matched \cup {c}
        /\ CASE op[c] = "store" -> Goes(c, "write") /\ UNCHANGED got
             [] op[c] = "read" ->
                  IF got[c].key = key
                  THEN Ends(c, "ok") /\ got' = [got EXCEPT ![c] = @.secret]
                  ELSE Ends(c, "invalidated") /\ UNCHANGED got
     \/ Ends(c, "error") /\ UNCHANGED <<got, matched>>
  /\ UNCHANGED <<signed, helloVars, mayVars>> /\ HelloOnly

\* Variant: the file is written in place.
WriteInPlace(c) ==
  /\ At(c, "write")
  /\ LET f == IF file = None THEN c ELSE file
     IN  /\ file' = f /\ staging' = f /\ disk' = [disk EXCEPT ![f] = None]
         /\ got' = [got EXCEPT ![c] = f] /\ Goes(c, "writing")
  /\ UNCHANGED <<signed, matched, key, keys, dialogs, mayVars>> /\ HelloOnly

\* fs::write creates or truncates the staged file, then writes; every store
\* has the same one.
WriteStaging(c) ==
  /\ At(c, "write")
  /\ \/ LET f == IF staging = None THEN c ELSE staging
        IN  /\ staging' = f /\ disk' = [disk EXCEPT ![f] = None]
            /\ got' = [got EXCEPT ![c] = f] /\ Goes(c, "writing")
     \/ Ends(c, "error") /\ UNCHANGED <<staging, disk, got>>
  /\ UNCHANGED <<signed, matched, file, key, keys, dialogs, mayVars>> /\ HelloOnly

\* It writes what it has opened, wherever that is renamed to meanwhile.  A
\* longer one that was written since is left with its end.
WriteSealed(c) ==
  /\ At(c, "writing")
  /\ \/ disk' = [disk EXCEPT ![got[c]] = [secret |-> c, key |-> signed[c]]]
     \/ disk[got[c]] # None /\ disk' = [disk EXCEPT ![got[c]] = Torn]
  /\ Goes(c, "rename")
  /\ UNCHANGED <<got, signed, matched, file, staging, key, keys, dialogs, mayVars>> /\ HelloOnly

Rename(c) ==
  /\ At(c, "rename")
  /\ \/ /\ staging # None /\ file' = staging /\ staging' = None
        /\ Ends(c, "ok") /\ Acknowledges(c)
     \/ Ends(c, "error") /\ UNCHANGED <<file, staging, mayVars>>
  /\ UNCHANGED <<got, signed, matched, disk, key, keys, dialogs>> /\ HelloOnly

\* An empty file is refused, one of two writers may be.
ReadFile(c) ==
  /\ At(c, "read_file")
  /\ \/ file = None /\ Ends(c, "not_found") /\ UNCHANGED got
     \/ file # None /\ disk[file] \in {None, Torn} /\ Ends(c, "error") /\ UNCHANGED got
     \/ file # None /\ disk[file] # None
        /\ Goes(c, "open_read") /\ got' = [got EXCEPT ![c] = disk[file]]
  /\ UNCHANGED <<signed, matched, helloVars, mayVars>> /\ HelloOnly

OpenToRead(c) ==
  /\ At(c, "open_read")
  /\ \/ key # 0 /\ signed' = [signed EXCEPT ![c] = key] /\ Goes(c, "sign")
     \/ key = 0 /\ Goes(c, "discard") /\ UNCHANGED signed
     \/ Ends(c, "error") /\ UNCHANGED signed
  /\ UNCHANGED <<got, matched, helloVars, mayVars>> /\ HelloOnly

\* A read whose key is gone removes the file, whatever file that is by now.
discard(c) ==
  /\ At(c, "discard")
  /\ \/ /\ file' = None
        /\ IF op[c] = "read" THEN Ends(c, "invalidated") ELSE Goes(c, "delete_key")
        /\ IF op[c] = "delete" \/ (file # None /\ disk[file] # got[c])
           THEN MayBe(Running \ {c}, {None}) ELSE UNCHANGED mayVars
     \/ Ends(c, "error") /\ UNCHANGED <<file, mayVars>>
  /\ UNCHANGED <<got, signed, matched, staging, disk, key, keys, dialogs>> /\ HelloOnly

DeleteKey(c) ==
  /\ At(c, "delete_key")
  /\ key' \in {0, key}
  /\ Ends(c, "ok") /\ Acknowledges(c)
  /\ UNCHANGED <<got, signed, matched, file, staging, disk, keys, dialogs>> /\ HelloOnly

is_file(c) ==
  /\ At(c, "is_file")
  /\ IF file = None THEN Ends(c, "absent") ELSE Goes(c, "open_has")
  /\ UNCHANGED <<got, signed, matched, helloVars, mayVars>> /\ HelloOnly

OpenToLook(c) ==
  /\ At(c, "open_has")
  /\ Ends(c, IF key = 0 THEN "absent" ELSE "there")
  /\ UNCHANGED <<got, signed, matched, helloVars, mayVars>> /\ HelloOnly

\* Windows and macOS verify in a dialog of the system.
Consent(c) ==
  /\ At(c, "consent")
  /\ \/ Ends(c, "ok") /\ matched' = matched \cup {c}
     \/ Ends(c, "error") /\ UNCHANGED matched
  /\ UNCHANGED <<got, signed, helloVars, mayVars>> /\ HelloOnly
-----------------------------------------------------------------------------
(* macOS.  SecItem calls take effect at once; only the call that waits for *)
(* the user can be cancelled.                                              *)

SystemOnly == UNCHANGED <<helloVars, readerVars>>

DeleteItem(c) ==
  /\ At(c, "delete_item")
  /\ \/ /\ item' = None
        /\ IF op[c] = "delete" THEN Ends(c, "ok") /\ Acknowledges(c)
                               ELSE Goes(c, "add") /\ MayBe(Running \ {c}, {None})
     \/ Ends(c, "error") /\ UNCHANGED <<item, mayVars>>
  /\ UNCHANGED <<got, signed, matched>> /\ SystemOnly

\* SecItemAdd refuses an item that is there.
AddItem(c) ==
  /\ At(c, "add")
  /\ \/ item = None /\ item' = c /\ Ends(c, "ok") /\ Acknowledges(c)
     \/ Ends(c, "error") /\ UNCHANGED <<item, mayVars>>
  /\ UNCHANGED <<got, signed, matched>> /\ SystemOnly

CopyData(c) ==
  /\ At(c, "copy_data")
  /\ CASE item = None -> Ends(c, "not_found") /\ UNCHANGED <<got, matched>>
       [] OTHER -> \/ /\ Ends(c, "ok") /\ got' = [got EXCEPT ![c] = item]
                      /\ matched' = matched \cup {c}
                   \/ Ends(c, "error") /\ UNCHANGED <<got, matched>>
  /\ UNCHANGED <<signed, item, mayVars>> /\ SystemOnly

ItemExists(c) ==
  /\ At(c, "exists")
  /\ Ends(c, IF item = None THEN "absent" ELSE "there")
  /\ UNCHANGED <<got, signed, matched, item, mayVars>> /\ SystemOnly

until_cancelled(c) ==
  /\ platform = "macos" /\ c \in cancelled /\ pc[c] \in {"copy_data", "consent"}
  /\ At(c, pc[c]) /\ Ends(c, "cancelled")
  /\ UNCHANGED <<got, signed, matched, item, mayVars>> /\ SystemOnly
-----------------------------------------------------------------------------
(* Linux: Reader::verify, then the keyring.                                *)

KeyringOnly == UNCHANGED <<helloVars, readerVars>>

\* A reader that another call has claimed is busy.
Claim(c) ==
  /\ At(c, "claim")
  /\ \/ claimed = None /\ claimed' = c /\ Goes(c, "verify_start")
     \/ Ends(c, "error") /\ UNCHANGED claimed
  /\ UNCHANGED <<got, signed, matched, helloVars, item, scanning, mayVars>>

VerifyStart(c) ==
  /\ At(c, "verify_start")
  /\ \/ scanning' = TRUE /\ Goes(c, "scan")
     \/ Goes(c, "release") /\ UNCHANGED scanning
  /\ UNCHANGED <<got, signed, matched, helloVars, item, claimed, mayVars>>

\* The scan matches or fails, or the token has fired; a result that is there
\* already goes first.
scan(c) ==
  /\ At(c, "scan")
  /\ \/ matched' = matched \cup {c}
     \/ UNCHANGED matched
  /\ Goes(c, "verify_stop")
  /\ UNCHANGED <<got, signed, helloVars, item, readerVars, mayVars>>

scan_cancelled(c) ==
  /\ c \in cancelled /\ At(c, "scan") /\ Goes(c, "verify_stop")
  /\ UNCHANGED <<got, signed, matched, helloVars, item, readerVars, mayVars>>

\* Variant: the scan of a cancelled call goes on.
VerifyStopUnlessCancelled(c) ==
  /\ At(c, "verify_stop")
  /\ scanning' = (c \in cancelled) /\ Goes(c, "release")
  /\ UNCHANGED <<got, signed, matched, helloVars, item, claimed, mayVars>>

VerifyStop(c) ==
  /\ At(c, "verify_stop")
  /\ scanning' = FALSE /\ Goes(c, "release")
  /\ UNCHANGED <<got, signed, matched, helloVars, item, claimed, mayVars>>

\* The outcome of the scan is passed on once the reader is released.
Release(c) ==
  /\ At(c, "release")
  /\ claimed' = None
  /\ IF c \notin matched THEN Ends(c, IF c \in cancelled THEN "cancelled" ELSE "error")
     ELSE CASE op[c] = "authenticate" -> Ends(c, "ok")
            [] op[c] = "store" -> Goes(c, "create_item")
            [] op[c] = "read" -> Goes(c, "find")
  /\ UNCHANGED <<got, signed, matched, helloVars, item, scanning, mayVars>>

Contains(c) ==
  /\ At(c, "contains")
  /\ CASE op[c] = "has" -> Ends(c, IF item = None THEN "absent" ELSE "there")
       [] op[c] # "has" /\ item = None -> Ends(c, "not_found")
       [] OTHER -> Goes(c, "claim")
  /\ UNCHANGED <<got, signed, matched, item, mayVars>> /\ KeyringOnly

\* Replaces the item; the service may first want a prompt answered, which no
\* token ends.
CreateItem(c) ==
  /\ At(c, "create_item")
  /\ \/ item' = c /\ Ends(c, "ok") /\ Acknowledges(c)
     \/ Goes(c, "create_prompt") /\ UNCHANGED <<item, mayVars>>
     \/ Ends(c, "error") /\ UNCHANGED <<item, mayVars>>
  /\ UNCHANGED <<got, signed, matched>> /\ KeyringOnly

CreatePrompt(c) ==
  /\ At(c, "create_prompt")
  /\ \/ item' = c /\ Ends(c, "ok") /\ Acknowledges(c)
     \/ Ends(c, "error") /\ UNCHANGED <<item, mayVars>>
  /\ UNCHANGED <<got, signed, matched>> /\ KeyringOnly

\* Variant: a collection that is locked is taken for one without the item.
FindUnlocked(c) ==
  /\ At(c, "find")
  /\ \/ /\ item # None
        /\ Goes(c, IF op[c] = "read" THEN "get_secret" ELSE "item_delete") /\ UNCHANGED mayVars
     \/ op[c] = "read" /\ Ends(c, "not_found") /\ UNCHANGED mayVars
     \/ op[c] = "delete" /\ Ends(c, "ok") /\ Acknowledges(c)
  /\ UNCHANGED <<got, signed, matched, item>> /\ KeyringOnly

\* find may unlock the collection first, with a prompt of its own.
find(c) ==
  /\ At(c, "find")
  /\ CASE item = None /\ op[c] = "read" -> Ends(c, "not_found") /\ UNCHANGED mayVars
       [] item = None /\ op[c] = "delete" -> Ends(c, "ok") /\ Acknowledges(c)
       [] OTHER -> /\ \/ Goes(c, IF op[c] = "read" THEN "get_secret" ELSE "item_delete")
                      \/ Ends(c, "error")
                   /\ UNCHANGED mayVars
  /\ UNCHANGED <<got, signed, matched, item>> /\ KeyringOnly

GetSecret(c) ==
  /\ At(c, "get_secret")
  /\ IF item = None THEN Ends(c, "error") /\ UNCHANGED got
                    ELSE Ends(c, "ok") /\ got' = [got EXCEPT ![c] = item]
  /\ UNCHANGED <<signed, matched, item, mayVars>> /\ KeyringOnly

\* delete looks again until nothing is found.
ItemDelete(c) ==
  /\ At(c, "item_delete")
  /\ \/ item' = None /\ MayBe(Running \ {c}, {None}) /\ Goes(c, "find")
     \/ Ends(c, "error") /\ UNCHANGED <<item, mayVars>>
  /\ UNCHANGED <<got, signed, matched>> /\ KeyringOnly
-----------------------------------------------------------------------------
(* What goes wrong around it. *)

\* The app dies: fprintd drops the claim with the connection; files, keys and
\* items stay.
Restart ==
  /\ troubles < MaxTroubles /\ troubles' = troubles + 1
  /\ pc' = [c \in Calls |-> IF c \in Running THEN "dead" ELSE pc[c]]
  /\ claimed' = None /\ scanning' = FALSE /\ dialogs' = {}
  /\ UNCHANGED <<platform, op, answer, got, signed, cancelled, matched, file, staging, disk, key, keys,
                 item, mayVars>>

\* The PIN is reset, or Hello removed.
ResetHello ==
  /\ platform = "windows" /\ key # 0
  /\ troubles < MaxTroubles /\ troubles' = troubles + 1
  /\ key' = 0 /\ MayBe(Running, {None})
  /\ UNCHANGED <<platform, callVars, file, staging, disk, keys, dialogs, item, readerVars>>
-----------------------------------------------------------------------------
Steps(c) ==
  \/ complete_cancelled(c) \/ open_or_create(c) \/ RequestCreate(c) \/ cipher(c)
  \/ WriteStaging(c) \/ WriteSealed(c) \/ Rename(c) \/ ReadFile(c) \/ OpenToRead(c)
  \/ discard(c) \/ DeleteKey(c) \/ is_file(c) \/ OpenToLook(c) \/ Consent(c)
  \/ DeleteItem(c) \/ AddItem(c) \/ CopyData(c) \/ ItemExists(c) \/ until_cancelled(c)
  \/ Claim(c) \/ VerifyStart(c) \/ scan(c) \/ scan_cancelled(c) \/ VerifyStop(c) \/ Release(c)
  \/ Contains(c) \/ CreateItem(c) \/ CreatePrompt(c) \/ find(c) \/ GetSecret(c) \/ ItemDelete(c)

Next ==
  \/ \E c \in Calls : Start(c) \/ Cancel(c) \/ Steps(c) \/ StaleDialog(c)
  \/ Restart \/ ResetHello

Spec == Init /\ [][Next]_vars
-----------------------------------------------------------------------------
(* What holds. *)

\* What the vault holds: what a read would answer with.
Held ==
  CASE platform # "windows" -> item
    [] platform = "windows" /\ file = None -> None
    [] platform = "windows" /\ file # None ->
         IF disk[file] \notin Files THEN Torn
         ELSE IF disk[file].key = key THEN disk[file].secret ELSE None

\* The vault holds what was acknowledged last, or what a write that began since
\* would put there, whatever fails and whenever the process dies; and the file
\* is whole: "Write-then-rename so a crash never leaves a torn secret",
\* vault.rs:78.  An acknowledged secret may be another's, gone or torn only if
\* another call wrote, or Hello was reset or an old dialog answered, while or
\* after it was stored, or if a read that found the key gone removed it.
VaultKeeps ==
  /\ TypeOK
  /\ Held \in may

\* A read answers with a secret that the vault may have held since the read
\* began, and that there is none only if it may have held none: on Windows
\* what it answers with may be overwritten or deleted by then.
ReadsAreTrue ==
  [][\A c \in Calls :
       (op[c] = "read" /\ answer[c] = None) =>
         /\ answer'[c] = "ok" => got'[c] \in Calls \cap beside[c]
         /\ answer'[c] = "not_found" => None \in beside[c]]_vars

\* A secret is read, and stored where storing verifies, for a user who was
\* verified by that very call.
GateHolds ==
  \A c \in Calls :
    (/\ answer[c] = "ok"
     /\ op[c] \in {"read", "authenticate", "store"}
     /\ op[c] = "store" => platform # "macos") => c \in matched

\* The reader is claimed by a call that runs, and verifies for that call alone:
\* one that is cancelled gives it back.
ReaderReturned ==
  /\ claimed \in Running \cup {None}
  /\ scanning => claimed # None /\ pc[claimed] \in {"scan", "verify_stop"}

\* Whoever holds a secret was verified, by a reader that verified for no one else.
VerifiedOnly == GateHolds /\ ReaderReturned

\* What does not hold: that there is a secret to read once one was acknowledged,
\* as long as nothing is deleted and Hello is not reset.  On macOS a store deletes
\* first and may then fail; on Windows of two first stores each replaces the
\* other's key, and so may a store that fails later, or an old dialog.
SecretSurvives ==
  (/\ Running = {} /\ troubles = 0
   /\ \E c \in Calls : op[c] = "store" /\ answer[c] = "ok"
   /\ \A c \in Calls : op[c] # "delete") => Held \in Calls
=============================================================================
