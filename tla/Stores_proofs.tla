---------------------------- MODULE Stores_proofs ----------------------------
(***************************************************************************)
(* Proofs about what outlives the process: DataStore's file, the vault of  *)
(* BiometricVault, and the directory through which ShareHandoff's app and  *)
(* extension pass shares on; and about the sheets of ShareSheet, the other *)
(* half of that plugin.  Each of the four has an invariant of its own,     *)
(* over the state of that component alone.                                 *)
(*                                                                         *)
(* The data store: for any number of instances what its variables hold,    *)
(* and, for an instance that is alone with its files, that its file is     *)
(* whole, that an Ok means saved, and that it implements DurableMap.  The  *)
(* vault: for any number of calls on one alias, side by side, and any      *)
(* number of Hello keys, that it keeps what was acknowledged or what a     *)
(* call that ran beside or since left, that reads answer with what was     *)
(* there since they began and that only who was verified has a secret.     *)
(* The hand-off: for any entries and crashes, that no share is deleted     *)
(* unread, published twice or published without its file but where a crash *)
(* or a second drain did it.  The sheets: for any calls, windows and       *)
(* platforms, that they follow their calls, that a call is told what       *)
(* became of its own sheet, and that none comes after the answer.          *)
(***************************************************************************)
EXTENDS MCShares, Naturals, Sequences, TLAPS
-----------------------------------------------------------------------------
(* The data store.                                                         *)

\* No two instances share the files.
Alone == \A s, t \in Stores : s = t

\* The temporary file holds the map from the end of the write to the end of
\* the copy, and the file holds it from there.
TmpHoldsMap ==
  \A s \in Stores : at[s] \in {"written", "copying"} => file["tmp"] = mem[s]
CopyHoldsMap ==
  \A s \in Stores : at[s] = "copied" => file["path"] = mem[s]

\* An open handle is one of the temporary file, and only a copy needs the
\* other platform.
WritesToTmp ==
  \A s \in Stores : writes[s] = IF at[s] = "writing" THEN "tmp" ELSE "nowhere"
CopiesOnWindows ==
  \A s \in Stores : at[s] \in {"copying", "copied"} => target = "windows"

IInv ==
  /\ TypeOK
  /\ TmpHoldsMap /\ CopyHoldsMap
  /\ WritesToTmp /\ CopiesOnWindows
  /\ SavedWhole /\ AcknowledgedIsSaved

\* Every variable keeps to its type, with any number of instances.
THEOREM Typing == Spec => []TypeOK
<1>1. Init => TypeOK
  BY DataStoreAssumption DEF Init, TypeOK, Content, NotMaps, Stage
<1>2. ASSUME TypeOK, [Next]_vars PROVE TypeOK'
  <2> USE <1>2, DataStoreAssumption DEF TypeOK, Content, NotMaps, Stage
  <2>1. ASSUME NEW s \in Stores, Open(s) PROVE TypeOK'
    BY <2>1 DEF Open, Load
  <2>2. ASSUME NEW s \in Stores, PersistFails(s) PROVE TypeOK'
    BY <2>2 DEF PersistFails, Fails
  <2>3. ASSUME NEW s \in Stores, CreateTmp(s) PROVE TypeOK'
    BY <2>3 DEF CreateTmp
  <2>4. ASSUME NEW s \in Stores, WriteSome(s) PROVE TypeOK'
    BY <2>4 DEF WriteSome, Wrote
  <2>5. ASSUME NEW s \in Stores, WriteRest(s) PROVE TypeOK'
    BY <2>5 DEF WriteRest, Wrote
  <2>6. ASSUME NEW s \in Stores, Rename(s) PROVE TypeOK'
    BY <2>6 DEF Rename, Follow
  <2>7. ASSUME NEW s \in Stores, RenameRefused(s) PROVE TypeOK'
    BY <2>7 DEF RenameRefused
  <2>8. ASSUME NEW s \in Stores, CopySome(s) PROVE TypeOK'
    BY <2>8 DEF CopySome
  <2>9. ASSUME NEW s \in Stores, CopyRest(s) PROVE TypeOK'
    BY <2>9 DEF CopyRest
  <2>10. ASSUME NEW s \in Stores, RemoveTmp(s) PROVE TypeOK'
    BY <2>10 DEF RemoveTmp
  <2>11. ASSUME NEW s \in Stores, NEW m \in Maps, Mutate(s, m) PROVE TypeOK'
    BY <2>11 DEF Mutate
  <2>12. CASE Crash
    BY <2>12 DEF Crash
  <2>13. CASE UNCHANGED vars
    BY <2>13 DEF vars
  <2> QED
    BY <1>2, <2>1, <2>2, <2>3, <2>4, <2>5, <2>6, <2>7, <2>8, <2>9, <2>10,
       <2>11, <2>12, <2>13 DEF Next, StoreStep
<1> QED
  BY <1>1, <1>2, PTL DEF Spec

\* The strengthened invariant is inductive for an instance on its own: each
\* step is that of the one store there is, so that no other can have renamed
\* or cut the temporary file under it.
LEMMA AloneStep ==
  ASSUME Alone, IInv, TypeOK', [Next]_vars
  PROVE  IInv'
<1> USE DataStoreAssumption
    DEF IInv, TypeOK, TmpHoldsMap, CopyHoldsMap, WritesToTmp, CopiesOnWindows,
        SavedWhole, AcknowledgedIsSaved, Alone, NotMaps, Content, Stage
<1>1. ASSUME NEW s \in Stores, Open(s) PROVE IInv'
  BY <1>1 DEF Open, Load
<1>2. ASSUME NEW s \in Stores, PersistFails(s) PROVE IInv'
  BY <1>2 DEF PersistFails, Fails
<1>3. ASSUME NEW s \in Stores, CreateTmp(s) PROVE IInv'
  BY <1>3 DEF CreateTmp
<1>4. ASSUME NEW s \in Stores, WriteSome(s) PROVE IInv'
  BY <1>4 DEF WriteSome, Wrote
<1>5. ASSUME NEW s \in Stores, WriteRest(s) PROVE IInv'
  BY <1>5 DEF WriteRest, Wrote
<1>6. ASSUME NEW s \in Stores, Rename(s) PROVE IInv'
  BY <1>6 DEF Rename, Follow
<1>7. ASSUME NEW s \in Stores, RenameRefused(s) PROVE IInv'
  BY <1>7 DEF RenameRefused
<1>8. ASSUME NEW s \in Stores, CopySome(s) PROVE IInv'
  BY <1>8 DEF CopySome
<1>9. ASSUME NEW s \in Stores, CopyRest(s) PROVE IInv'
  BY <1>9 DEF CopyRest
<1>10. ASSUME NEW s \in Stores, RemoveTmp(s) PROVE IInv'
  BY <1>10 DEF RemoveTmp
<1>11. ASSUME NEW s \in Stores, NEW m \in Maps, Mutate(s, m) PROVE IInv'
  BY <1>11 DEF Mutate
<1>12. CASE Crash
  BY <1>12 DEF Crash
<1>13. CASE UNCHANGED vars
  BY <1>13 DEF vars
<1> QED
  BY <1>1, <1>2, <1>3, <1>4, <1>5, <1>6, <1>7, <1>8, <1>9, <1>10, <1>11,
     <1>12, <1>13 DEF Next, StoreStep

\* The strengthened invariant holds throughout.
LEMMA AloneInvariant ==
  ASSUME Alone PROVE Spec => []IInv
<1>1. Init => IInv
  BY DataStoreAssumption
     DEF Init, IInv, TypeOK, TmpHoldsMap, CopyHoldsMap, WritesToTmp,
         CopiesOnWindows, SavedWhole, AcknowledgedIsSaved, Content, NotMaps, Stage
<1>2. IInv /\ TypeOK' /\ [Next]_vars => IInv'
  BY AloneStep
<1> QED
  BY <1>1, <1>2, Typing, PTL DEF Spec

\* Where a rename replaces a file at once, the file of an instance on its
\* own is a whole map at every step, so whenever the process dies.
THEOREM AloneKeepsFileWhole ==
  ASSUME Alone PROVE Spec => []SavedWhole
<1>1. IInv => SavedWhole
  BY DEF IInv
<1> QED
  BY <1>1, AloneInvariant, PTL

\* A mutation that returned Ok has saved the map the instance shows, on
\* every platform, whatever failed or died before it.
THEOREM AloneOkMeansSaved ==
  ASSUME Alone PROVE Spec => []AcknowledgedIsSaved
<1>1. IInv => AcknowledgedIsSaved
  BY DEF IInv
<1> QED
  BY <1>1, AloneInvariant, PTL

-----------------------------------------------------------------------------
(* Refinement.                                                             *)

\* A step of the one store is a step of the durable map, or changes nothing
\* that can be seen of it.
LEMMA StepRefines ==
  ASSUME Alone, Stores # {}, IInv, [Next]_vars
  PROVE  [Durable!Next]_(Durable!vars)
<1>s. TheStore \in Stores /\ \A t \in Stores : t = TheStore
  BY DEF TheStore, Alone
<1>t. /\ file \in [{"path", "tmp"} -> Content]
      /\ mem \in [Stores -> Maps] /\ at \in [Stores -> Stage]
      /\ told \in [Stores -> {"none", "ok", "error"}]
  BY DEF IInv, TypeOK
<1>i. /\ at[TheStore] \in {"written", "copying"} => file["tmp"] = mem[TheStore]
      /\ at[TheStore] = "copied" => file["path"] = mem[TheStore]
      /\ writes[TheStore] = IF at[TheStore] = "writing" THEN "tmp" ELSE "nowhere"
      /\ at[TheStore] \in {"copying", "copied"} => target = "windows"
  BY <1>s DEF IInv, TmpHoldsMap, CopyHoldsMap, WritesToTmp, CopiesOnWindows
<1>l. \A m \in Maps : Load(m) = m /\ m # "partial"
  BY DataStoreAssumption DEF Load, NotMaps
<1> USE <1>s, <1>t DEF Content, NotMaps, Stage
<1>1. ASSUME NEW s \in Stores, Open(s) PROVE Durable!Start
  <2>1. s = TheStore
    BY <1>s
  <2>2. Load(file["path"]) # "partial"
    BY <1>1, DataStoreAssumption DEF Open, Load
  <2> QED
    BY <1>1, <2>1, <2>2 DEF Open, Durable!Start
<1>2. ASSUME NEW s \in Stores, PersistFails(s) PROVE Durable!Fail
  BY <1>2 DEF PersistFails, Fails, Durable!Fail
<1>3. ASSUME NEW s \in Stores, CreateTmp(s) PROVE UNCHANGED Durable!vars
  BY <1>3 DEF CreateTmp, Durable!vars
<1>4. ASSUME NEW s \in Stores, WriteSome(s) PROVE UNCHANGED Durable!vars
  BY <1>4, <1>i DEF WriteSome, Wrote, Durable!vars
<1>5. ASSUME NEW s \in Stores, WriteRest(s) PROVE UNCHANGED Durable!vars
  BY <1>5, <1>i DEF WriteRest, Wrote, Durable!vars
<1>6. ASSUME NEW s \in Stores, Rename(s) PROVE Durable!Finish
  BY <1>6, <1>i, <1>l DEF Rename, Durable!Finish
<1>7. ASSUME NEW s \in Stores, RenameRefused(s) PROVE Durable!Replace(Empty)
  BY <1>7 DEF RenameRefused, Load, Durable!Replace
<1>8. ASSUME NEW s \in Stores, CopySome(s) PROVE Durable!Replace("partial")
  BY <1>8, <1>i DEF CopySome, Load, Durable!Replace
<1>9. ASSUME NEW s \in Stores, CopyRest(s)
      PROVE  Durable!Replace(mem[TheStore])
  BY <1>9, <1>i, <1>l DEF CopyRest, Durable!Replace
<1>10. ASSUME NEW s \in Stores, RemoveTmp(s) PROVE Durable!Finish
  BY <1>10, <1>i, <1>l DEF RemoveTmp, Durable!Finish
<1>11. ASSUME NEW s \in Stores, NEW m \in Maps, Mutate(s, m)
       PROVE  Durable!Change(m)
  BY <1>11 DEF Mutate, Durable!Change
<1>12. ASSUME Crash PROVE Durable!Die
  BY <1>12 DEF Crash, Durable!Die
<1>13. ASSUME UNCHANGED vars PROVE UNCHANGED Durable!vars
  BY <1>13 DEF vars, Durable!vars
<1>14. Empty \in Maps /\ mem[TheStore] \in Maps
  BY DataStoreAssumption
<1> QED
  BY <1>1, <1>2, <1>3, <1>4, <1>5, <1>6, <1>7, <1>8, <1>9, <1>10, <1>11,
     <1>12, <1>13, <1>14 DEF Next, StoreStep, Durable!Next

\* An instance that is alone with its files implements the durable map.
THEOREM AloneIsDurable ==
  ASSUME Alone, Stores # {} PROVE Spec => KeepsDurable
<1>1. Init => Durable!Init
  <2> SUFFICES ASSUME Init PROVE Durable!Init
    OBVIOUS
  <2>1. TheStore \in Stores
    BY DEF TheStore
  <2> QED
    BY <2>1 DEF Init, Load, Durable!Init
<1>2. IInv /\ [Next]_vars => [Durable!Next]_(Durable!vars)
  BY StepRefines
<1> QED
  BY <1>1, <1>2, AloneInvariant, PTL DEF Spec, KeepsDurable, Durable!Spec
-----------------------------------------------------------------------------
(* The vault.                                                              *)

Tables ==
  /\ DOMAIN op = Calls /\ DOMAIN pc = Calls /\ DOMAIN answer = Calls
  /\ DOMAIN got = Calls /\ DOMAIN signed = Calls /\ DOMAIN disk = Calls /\ DOMAIN beside = Calls

Rests(c) == pc[c] \in {"new", "done", "dead"}

OnWindows == {"open", "create", "sign", "write", "writing", "rename", "read_file", "open_read",
              "discard", "delete_key", "is_file", "open_has"}
OnMac == {"delete_item", "add", "copy_data", "exists"}
AtReader == {"verify_start", "scan", "verify_stop", "release"}
OnLinux == AtReader \cup {"claim", "contains", "create_item", "create_prompt", "find", "get_secret",
                         "item_delete"}

\* Whose step it may be.
OpsAt(step) ==
  IF step \in {"open", "create", "write", "writing", "rename", "add", "create_item", "create_prompt"}
    THEN {"store"}
  ELSE IF step \in {"read_file", "open_read", "copy_data", "get_secret"} THEN {"read"}
  ELSE IF step \in {"delete_key", "item_delete"} THEN {"delete"}
  ELSE IF step = "sign" THEN {"store", "read"}
  ELSE IF step \in {"discard", "find"} THEN {"read", "delete"}
  ELSE IF step = "delete_item" THEN {"store", "delete"}
  ELSE IF step = "consent" THEN {"authenticate"}
  ELSE IF step \in {"is_file", "open_has", "exists"} THEN {"has"}
  ELSE IF step = "contains" THEN {"read", "has"}
  ELSE {"store", "read", "authenticate"}

\* Where a call is.
InPlace(c) ==
  /\ ~Rests(c) => /\ op[c] \in OpsAt(pc[c])
                  /\ pc[c] \in OnWindows \cup OnMac \cup OnLinux \cup {"consent"}
                  /\ pc[c] \in OnWindows => platform = "windows"
                  /\ pc[c] \in OnMac => platform = "macos"
                  /\ pc[c] \in OnLinux => platform = "linux"
  /\ pc[c] # "done" => answer[c] = None
  /\ pc[c] = "new" => op[c] = None

\* Who holds a secret, or is about to, was verified.
Gated(c) ==
  /\ pc[c] \in {"write", "writing", "rename", "create_item", "create_prompt", "get_secret"} => c \in matched
  /\ pc[c] = "find" /\ op[c] = "read" => c \in matched
  /\ (/\ answer[c] = "ok" /\ op[c] \in {"read", "authenticate", "store"}
      /\ op[c] = "store" => platform # "macos") => c \in matched

\* The reader is a call's for as long as it is at it.
ReaderHeld ==
  /\ claimed \in Calls \cup {None}
  /\ \A c \in Calls : pc[c] \in AtReader <=> claimed = c
  /\ scanning => claimed # None /\ pc[claimed] \in {"scan", "verify_stop"}

Writing(c) == ~Rests(c) /\ op[c] \in {"store", "delete"}
IsStore(c) == ~Rests(c) /\ op[c] = "store"

\* Of two calls that write each reckons with the other, and two stores on
\* Windows with a file or a key the other has spoilt.
Rivals ==
  \A c, d \in Calls :
    (c # d /\ IsStore(c) /\ Writing(d)) =>
      /\ c \in beside[d]
      /\ platform = "windows" /\ op[d] = "store" => V!Torn \in beside[d]

\* Where a torn file is reckoned with, so is none.
TornOrNone ==
  /\ V!Torn \in may => None \in may
  /\ \A c \in Calls : V!Torn \in beside[c] => None \in beside[c]

\* What the calls reckon with.
Reckoned ==
  /\ may \subseteq V!Contents /\ \A c \in Calls : beside[c] \subseteq V!Contents
  /\ Rivals /\ TornOrNone
  /\ \A c \in Calls : IsStore(c) => c \in may
  /\ \A c \in Calls : ~Rests(c) /\ op[c] = "read" => may \subseteq beside[c]
  /\ \A c, d \in Calls : c # d /\ IsStore(c) /\ pc[d] = "delete_key" => None \in beside[c]

\* The keys in use are old ones.
Sealing ==
  /\ key <= keys
  /\ \A c \in Calls : disk[c] \in V!Files => disk[c].key <= keys

\* A file is a call's that has got as far as creating it.
Fresh ==
  /\ vaultFile = None \/ vaultFile # staging
  /\ \A c \in Calls : c \in {vaultFile, staging} => pc[c] \in {"writing", "rename", "done", "dead"}

\* The key a call goes by.
Seals(c) ==
  /\ pc[c] \in {"sign", "write", "writing", "rename"} => signed[c] \in 1..keys
  /\ pc[c] \in {"write", "writing", "rename"} /\ None \notin beside[c] => signed[c] = key

\* What a store has made of the staged file: nobody has touched it but for
\* those it reckons with.
Staged(c) ==
  pc[c] \in {"writing", "rename"} =>
    /\ got[c] \in Calls
    /\ V!Torn \notin beside[c] =>
         /\ staging = got[c]
         /\ pc[c] = "writing" => disk[got[c]] = None
         /\ pc[c] = "rename" => disk[got[c]] = [secret |-> c, key |-> signed[c]]
    /\ staging # None /\ disk[staging] \in V!Files => disk[staging].secret \in beside[c] \cup {c}

\* What a read has in hand on Windows.
ReadsFile(c) ==
  op[c] = "read" =>
    /\ pc[c] \in {"open_read", "sign", "discard"} => got[c] \in V!Files \cup {V!Torn}
    /\ pc[c] \in {"open_read", "sign", "discard"} /\ got[c] \in V!Files => got[c].key <= keys
    /\ pc[c] \in {"open_read", "sign"} /\ got[c] \in V!Files /\ got[c].key = key =>
         got[c].secret \in beside[c]
    /\ pc[c] = "discard" /\ got[c] \in V!Files => got[c].key # key

\* A store whose file was published under it may still spoil it.
Unsettled(c) ==
  pc[c] = "writing" /\ got[c] = vaultFile =>
    V!Torn \in may /\ \A d \in Calls : Writing(d) => V!Torn \in beside[d]

\* A delete that has removed the file reckons with whatever is there again.
Settling(c) == pc[c] = "delete_key" => V!Held \in beside[c] \cup {None}

Hand(c) == Seals(c) /\ Staged(c) /\ ReadsFile(c) /\ Unsettled(c) /\ Settling(c)

Kept == Sealing /\ Fresh /\ (\A c \in Calls : Hand(c)) /\ V!Held \in may

VaultInv ==
  /\ V!TypeOK /\ Tables
  /\ \A c \in Calls : InPlace(c) /\ Gated(c)
  /\ ReaderHeld /\ Reckoned /\ Kept

\* A step of one call.
Took(c) ==
  /\ UNCHANGED <<platform, op, cancelled, troubles>>
  /\ pc[c] \notin {"new", "done", "dead"}
  /\ \A d \in Calls \ {c} :
       pc'[d] = pc[d] /\ answer'[d] = answer[d] /\ got'[d] = got[d] /\ signed'[d] = signed[d]
  /\ matched' = matched \/ matched' = matched \cup {c}
  /\ pc'[c] # "done" => answer'[c] = answer[c]
  /\ pc'[c] \notin {"new", "dead"}
  /\ Tables'

\* None and a torn file are nothing else.
Apart == None \notin Calls \cup V!Answers \cup V!Ops \cup V!Files \cup {V!Torn} /\ V!Torn \notin Calls

\* What the longer steps come to.
LEMMA Releases ==
  ASSUME Tables, NEW c \in Calls, InPlace(c), V!Release(c)
  PROVE  /\ pc[c] = "release" /\ claimed' = None
         /\ UNCHANGED <<platform, op, cancelled, troubles, got, signed, matched, vaultFile, staging, disk,
                        key, keys, dialogs, item, scanning, may, beside>>
         /\ \/ /\ pc' = [pc EXCEPT ![c] = "done"]
               /\ \E a \in {"cancelled", "error"} : answer' = [answer EXCEPT ![c] = a]
            \/ /\ c \in matched /\ op[c] = "authenticate" /\ pc' = [pc EXCEPT ![c] = "done"]
               /\ answer' = [answer EXCEPT ![c] = "ok"]
            \/ /\ c \in matched /\ op[c] = "store" /\ pc' = [pc EXCEPT ![c] = "create_item"]
               /\ answer' = answer
            \/ /\ c \in matched /\ op[c] = "read" /\ pc' = [pc EXCEPT ![c] = "find"]
               /\ answer' = answer
<1>1. pc[c] = "release" /\ op[c] \in {"store", "read", "authenticate"}
  BY DEF V!Release, V!At, InPlace, OpsAt, Rests
<1>2. CASE c \notin matched
  <2>1. V!Ends(c, IF c \in cancelled THEN "cancelled" ELSE "error")
    BY <1>2 DEF V!Release
  <2> QED BY <1>1, <1>2, <2>1 DEF V!Release, V!At, V!Ends, V!helloVars, V!mayVars
<1>3. CASE c \in matched /\ op[c] = "authenticate"
  BY <1>1, <1>3 DEF V!Release, V!At, V!Goes, V!Ends, V!helloVars, V!mayVars
<1>4. CASE c \in matched /\ op[c] = "store"
  BY <1>1, <1>4 DEF V!Release, V!At, V!Goes, V!Ends, V!helloVars, V!mayVars
<1>5. CASE c \in matched /\ op[c] = "read"
  BY <1>1, <1>5 DEF V!Release, V!At, V!Goes, V!Ends, V!helloVars, V!mayVars
<1> QED BY <1>1, <1>2, <1>3, <1>4, <1>5

LEMMA Ciphers ==
  ASSUME Tables, NEW c \in Calls, InPlace(c), V!cipher(c)
  PROVE  /\ pc[c] = "sign"
         /\ UNCHANGED <<platform, op, cancelled, troubles, signed, vaultFile, staging, disk,
                        key, keys, dialogs, item, claimed, scanning, may, beside>>
         /\ \/ /\ signed[c] = key /\ matched' = matched \cup {c} /\ op[c] = "store"
               /\ pc' = [pc EXCEPT ![c] = "write"] /\ answer' = answer /\ got' = got
            \/ /\ signed[c] = key /\ matched' = matched \cup {c} /\ op[c] = "read" /\ got[c].key = key
               /\ pc' = [pc EXCEPT ![c] = "done"] /\ answer' = [answer EXCEPT ![c] = "ok"]
               /\ got' = [got EXCEPT ![c] = got[c].secret]
            \/ /\ signed[c] = key /\ matched' = matched \cup {c} /\ op[c] = "read" /\ got' = got
               /\ pc' = [pc EXCEPT ![c] = "done"] /\ answer' = [answer EXCEPT ![c] = "invalidated"]
            \/ /\ matched' = matched /\ got' = got
               /\ pc' = [pc EXCEPT ![c] = "done"] /\ answer' = [answer EXCEPT ![c] = "error"]
<1>1. pc[c] = "sign" /\ op[c] \in {"store", "read"}
  BY DEF V!cipher, V!At, InPlace, OpsAt, Rests
<1> QED BY <1>1 DEF V!cipher, V!At, V!Goes, V!Ends, V!helloVars, V!mayVars, V!HelloOnly, V!readerVars

LEMMA ReadsIn ==
  ASSUME Tables, NEW c \in Calls, V!ReadFile(c)
  PROVE  /\ pc[c] = "read_file"
         /\ UNCHANGED <<platform, op, cancelled, troubles, signed, matched, vaultFile, staging, disk,
                        key, keys, dialogs, item, claimed, scanning, may, beside>>
         /\ \/ /\ vaultFile = None /\ got' = got
               /\ pc' = [pc EXCEPT ![c] = "done"] /\ answer' = [answer EXCEPT ![c] = "not_found"]
            \/ /\ got' = got
               /\ pc' = [pc EXCEPT ![c] = "done"] /\ answer' = [answer EXCEPT ![c] = "error"]
            \/ /\ vaultFile # None /\ disk[vaultFile] # None /\ got' = [got EXCEPT ![c] = disk[vaultFile]]
               /\ pc' = [pc EXCEPT ![c] = "open_read"] /\ answer' = answer
BY DEF V!ReadFile, V!At, V!Goes, V!Ends, V!helloVars, V!HelloOnly, V!readerVars, V!mayVars

LEMMA StepsTake ==
  ASSUME Tables, NEW c \in Calls, InPlace(c), V!Steps(c)
  PROVE  Took(c)
<1> USE DEF Tables, Took, V!At, V!Goes, V!Ends, V!helloVars, V!HelloOnly, V!SystemOnly, V!KeyringOnly,
        V!mayVars, V!MayBe, V!Tells, V!Acknowledges
<1>1. CASE V!complete_cancelled(c)
  BY <1>1 DEF V!complete_cancelled, V!Waits
<1>2. CASE V!open_or_create(c)
  BY <1>2 DEF V!open_or_create
<1>3. CASE V!RequestCreate(c)
  BY <1>3 DEF V!RequestCreate
<1>4. CASE V!cipher(c)
  BY <1>4, Ciphers
<1>5. CASE V!WriteStaging(c)
  BY <1>5 DEF V!WriteStaging
<1>6. CASE V!WriteSealed(c)
  BY <1>6 DEF V!WriteSealed
<1>7. CASE V!Rename(c)
  BY <1>7 DEF V!Rename
<1>8. CASE V!ReadFile(c)
  BY <1>8, ReadsIn
<1>9. CASE V!OpenToRead(c)
  BY <1>9 DEF V!OpenToRead
<1>10. CASE V!discard(c)
  BY <1>10 DEF V!discard
<1>11. CASE V!DeleteKey(c)
  BY <1>11 DEF V!DeleteKey
<1>12. CASE V!is_file(c)
  BY <1>12 DEF V!is_file
<1>13. CASE V!OpenToLook(c)
  BY <1>13 DEF V!OpenToLook
<1>14. CASE V!Consent(c)
  BY <1>14 DEF V!Consent
<1>15. CASE V!DeleteItem(c)
  BY <1>15 DEF V!DeleteItem
<1>16. CASE V!AddItem(c)
  BY <1>16 DEF V!AddItem
<1>17. CASE V!CopyData(c)
  BY <1>17 DEF V!CopyData
<1>18. CASE V!ItemExists(c)
  BY <1>18 DEF V!ItemExists
<1>19. CASE V!until_cancelled(c)
  BY <1>19 DEF V!until_cancelled
<1>20. CASE V!Claim(c)
  BY <1>20 DEF V!Claim
<1>21. CASE V!VerifyStart(c)
  BY <1>21 DEF V!VerifyStart
<1>22. CASE V!scan(c)
  BY <1>22 DEF V!scan
<1>23. CASE V!scan_cancelled(c)
  BY <1>23 DEF V!scan_cancelled
<1>24. CASE V!VerifyStop(c)
  BY <1>24 DEF V!VerifyStop
<1>25. CASE V!Release(c)
  BY <1>25, Releases
<1>26. CASE V!Contains(c)
  BY <1>26 DEF V!Contains
<1>27. CASE V!CreateItem(c)
  BY <1>27 DEF V!CreateItem
<1>28. CASE V!CreatePrompt(c)
  BY <1>28 DEF V!CreatePrompt
<1>29. CASE V!find(c)
  BY <1>29 DEF V!find
<1>30. CASE V!GetSecret(c)
  BY <1>30 DEF V!GetSecret
<1>31. CASE V!ItemDelete(c)
  BY <1>31 DEF V!ItemDelete
<1> QED
  BY <1>1, <1>2, <1>3, <1>4, <1>5, <1>6, <1>7, <1>8, <1>9, <1>10, <1>11, <1>12, <1>13, <1>14,
     <1>15, <1>16, <1>17, <1>18, <1>19, <1>20, <1>21, <1>22, <1>23, <1>24, <1>25, <1>26, <1>27,
     <1>28, <1>29, <1>30, <1>31
  DEF V!Steps

LEMMA StepsInPlace ==
  ASSUME Apart, V!TypeOK, Tables, NEW c \in Calls, InPlace(c), V!Steps(c)
  PROVE  InPlace(c)'
<1> USE DEF Tables, V!At, V!Goes, V!Ends, InPlace, OpsAt, Rests, OnWindows, OnMac, OnLinux, AtReader
<1>1. CASE V!complete_cancelled(c)
  BY <1>1 DEF V!complete_cancelled, V!Waits
<1>2. CASE V!open_or_create(c)
  BY <1>2 DEF V!open_or_create
<1>3. CASE V!RequestCreate(c)
  BY <1>3 DEF V!RequestCreate
<1>4. CASE V!cipher(c)
  BY <1>4, Ciphers
<1>5. CASE V!WriteStaging(c)
  BY <1>5 DEF V!WriteStaging
<1>6. CASE V!WriteSealed(c)
  BY <1>6 DEF V!WriteSealed
<1>7. CASE V!Rename(c)
  BY <1>7 DEF V!Rename
<1>8. CASE V!ReadFile(c)
  BY <1>8, ReadsIn
<1>9. CASE V!OpenToRead(c)
  BY <1>9 DEF V!OpenToRead
<1>10. CASE V!discard(c)
  BY <1>10 DEF V!discard
<1>11. CASE V!DeleteKey(c)
  BY <1>11 DEF V!DeleteKey
<1>12. CASE V!is_file(c)
  BY <1>12 DEF V!is_file
<1>13. CASE V!OpenToLook(c)
  BY <1>13 DEF V!OpenToLook
<1>14. CASE V!Consent(c)
  BY <1>14 DEF V!Consent
<1>15. CASE V!DeleteItem(c)
  BY <1>15 DEF V!DeleteItem
<1>16. CASE V!AddItem(c)
  BY <1>16 DEF V!AddItem
<1>17. CASE V!CopyData(c)
  BY <1>17 DEF V!CopyData
<1>18. CASE V!ItemExists(c)
  BY <1>18 DEF V!ItemExists
<1>19. CASE V!until_cancelled(c)
  BY <1>19 DEF V!until_cancelled
<1>20. CASE V!Claim(c)
  BY <1>20 DEF V!Claim
<1>21. CASE V!VerifyStart(c)
  BY <1>21 DEF V!VerifyStart
<1>22. CASE V!scan(c)
  BY <1>22 DEF V!scan
<1>23. CASE V!scan_cancelled(c)
  BY <1>23 DEF V!scan_cancelled
<1>24. CASE V!VerifyStop(c)
  BY <1>24 DEF V!VerifyStop
<1>25. CASE V!Release(c)
  BY <1>25, Releases
<1>26. CASE V!Contains(c)
  BY <1>26 DEF V!Contains
<1>27. CASE V!CreateItem(c)
  BY <1>27 DEF V!CreateItem
<1>28. CASE V!CreatePrompt(c)
  BY <1>28 DEF V!CreatePrompt
<1>29. CASE V!find(c)
  BY <1>29 DEF V!find
<1>30. CASE V!GetSecret(c)
  BY <1>30 DEF V!GetSecret
<1>31. CASE V!ItemDelete(c)
  BY <1>31 DEF V!ItemDelete
<1> QED
  BY <1>1, <1>2, <1>3, <1>4, <1>5, <1>6, <1>7, <1>8, <1>9, <1>10, <1>11, <1>12, <1>13, <1>14,
     <1>15, <1>16, <1>17, <1>18, <1>19, <1>20, <1>21, <1>22, <1>23, <1>24, <1>25, <1>26, <1>27,
     <1>28, <1>29, <1>30, <1>31
  DEF V!Steps

LEMMA StepsGated ==
  ASSUME Apart, Tables, NEW c \in Calls, InPlace(c), Gated(c), V!Steps(c)
  PROVE  Gated(c)'
<1> USE DEF Tables, V!At, V!Goes, V!Ends, InPlace, OpsAt, Rests, Gated, OnWindows, OnMac, OnLinux, AtReader
<1>1. CASE V!complete_cancelled(c)
  BY <1>1 DEF V!complete_cancelled, V!Waits
<1>2. CASE V!open_or_create(c)
  BY <1>2 DEF V!open_or_create
<1>3. CASE V!RequestCreate(c)
  BY <1>3 DEF V!RequestCreate
<1>4. CASE V!cipher(c)
  BY <1>4, Ciphers
<1>5. CASE V!WriteStaging(c)
  BY <1>5 DEF V!WriteStaging
<1>6. CASE V!WriteSealed(c)
  BY <1>6 DEF V!WriteSealed
<1>7. CASE V!Rename(c)
  BY <1>7 DEF V!Rename
<1>8. CASE V!ReadFile(c)
  BY <1>8, ReadsIn
<1>9. CASE V!OpenToRead(c)
  BY <1>9 DEF V!OpenToRead
<1>10. CASE V!discard(c)
  BY <1>10 DEF V!discard
<1>11. CASE V!DeleteKey(c)
  BY <1>11 DEF V!DeleteKey
<1>12. CASE V!is_file(c)
  BY <1>12 DEF V!is_file
<1>13. CASE V!OpenToLook(c)
  BY <1>13 DEF V!OpenToLook
<1>14. CASE V!Consent(c)
  BY <1>14 DEF V!Consent
<1>15. CASE V!DeleteItem(c)
  BY <1>15 DEF V!DeleteItem
<1>16. CASE V!AddItem(c)
  BY <1>16 DEF V!AddItem
<1>17. CASE V!CopyData(c)
  BY <1>17 DEF V!CopyData
<1>18. CASE V!ItemExists(c)
  BY <1>18 DEF V!ItemExists
<1>19. CASE V!until_cancelled(c)
  BY <1>19 DEF V!until_cancelled
<1>20. CASE V!Claim(c)
  BY <1>20 DEF V!Claim
<1>21. CASE V!VerifyStart(c)
  BY <1>21 DEF V!VerifyStart
<1>22. CASE V!scan(c)
  BY <1>22 DEF V!scan
<1>23. CASE V!scan_cancelled(c)
  BY <1>23 DEF V!scan_cancelled
<1>24. CASE V!VerifyStop(c)
  BY <1>24 DEF V!VerifyStop
<1>25. CASE V!Release(c)
  BY <1>25, Releases
<1>26. CASE V!Contains(c)
  BY <1>26 DEF V!Contains
<1>27. CASE V!CreateItem(c)
  BY <1>27 DEF V!CreateItem
<1>28. CASE V!CreatePrompt(c)
  BY <1>28 DEF V!CreatePrompt
<1>29. CASE V!find(c)
  BY <1>29 DEF V!find
<1>30. CASE V!GetSecret(c)
  BY <1>30 DEF V!GetSecret
<1>31. CASE V!ItemDelete(c)
  BY <1>31 DEF V!ItemDelete
<1> QED
  BY <1>1, <1>2, <1>3, <1>4, <1>5, <1>6, <1>7, <1>8, <1>9, <1>10, <1>11, <1>12, <1>13, <1>14,
     <1>15, <1>16, <1>17, <1>18, <1>19, <1>20, <1>21, <1>22, <1>23, <1>24, <1>25, <1>26, <1>27,
     <1>28, <1>29, <1>30, <1>31
  DEF V!Steps

LEMMA StepsReader ==
  ASSUME Apart, Tables, NEW c \in Calls, InPlace(c), ReaderHeld, Took(c), V!Steps(c)
  PROVE  ReaderHeld'
<1> USE DEF Tables, V!At, V!Goes, V!Ends, ReaderHeld, AtReader, Took, Apart, V!HelloOnly, V!SystemOnly,
        V!KeyringOnly, V!readerVars
<1>1. CASE V!complete_cancelled(c)
  BY <1>1 DEF V!complete_cancelled, V!Waits
<1>2. CASE V!open_or_create(c)
  BY <1>2 DEF V!open_or_create
<1>3. CASE V!RequestCreate(c)
  BY <1>3 DEF V!RequestCreate
<1>4. CASE V!cipher(c)
  BY <1>4, Ciphers
<1>5. CASE V!WriteStaging(c)
  BY <1>5 DEF V!WriteStaging
<1>6. CASE V!WriteSealed(c)
  BY <1>6 DEF V!WriteSealed
<1>7. CASE V!Rename(c)
  BY <1>7 DEF V!Rename
<1>8. CASE V!ReadFile(c)
  BY <1>8, ReadsIn
<1>9. CASE V!OpenToRead(c)
  BY <1>9 DEF V!OpenToRead
<1>10. CASE V!discard(c)
  BY <1>10 DEF V!discard
<1>11. CASE V!DeleteKey(c)
  BY <1>11 DEF V!DeleteKey
<1>12. CASE V!is_file(c)
  BY <1>12 DEF V!is_file
<1>13. CASE V!OpenToLook(c)
  BY <1>13 DEF V!OpenToLook
<1>14. CASE V!Consent(c)
  BY <1>14 DEF V!Consent
<1>15. CASE V!DeleteItem(c)
  BY <1>15 DEF V!DeleteItem
<1>16. CASE V!AddItem(c)
  BY <1>16 DEF V!AddItem
<1>17. CASE V!CopyData(c)
  BY <1>17 DEF V!CopyData
<1>18. CASE V!ItemExists(c)
  BY <1>18 DEF V!ItemExists
<1>19. CASE V!until_cancelled(c)
  BY <1>19 DEF V!until_cancelled
<1>20. CASE V!Claim(c)
  BY <1>20 DEF V!Claim
<1>21. CASE V!VerifyStart(c)
  BY <1>21 DEF V!VerifyStart
<1>22. CASE V!scan(c)
  BY <1>22 DEF V!scan
<1>23. CASE V!scan_cancelled(c)
  BY <1>23 DEF V!scan_cancelled
<1>24. CASE V!VerifyStop(c)
  BY <1>24 DEF V!VerifyStop
<1>25. CASE V!Release(c)
  BY <1>25, Releases
<1>26. CASE V!Contains(c)
  BY <1>26 DEF V!Contains
<1>27. CASE V!CreateItem(c)
  BY <1>27 DEF V!CreateItem
<1>28. CASE V!CreatePrompt(c)
  BY <1>28 DEF V!CreatePrompt
<1>29. CASE V!find(c)
  BY <1>29 DEF V!find
<1>30. CASE V!GetSecret(c)
  BY <1>30 DEF V!GetSecret
<1>31. CASE V!ItemDelete(c)
  BY <1>31 DEF V!ItemDelete
<1> QED
  BY <1>1, <1>2, <1>3, <1>4, <1>5, <1>6, <1>7, <1>8, <1>9, <1>10, <1>11, <1>12, <1>13, <1>14,
     <1>15, <1>16, <1>17, <1>18, <1>19, <1>20, <1>21, <1>22, <1>23, <1>24, <1>25, <1>26, <1>27,
     <1>28, <1>29, <1>30, <1>31
  DEF V!Steps

CallTyped(c) ==
  /\ op[c] \in V!Ops \cup {None} /\ answer[c] \in V!Answers \cup {None}
  /\ got[c] \in V!Files \cup Calls \cup {None, V!Torn} /\ signed[c] \in 0..MaxKeys

FilesTyped ==
  /\ vaultFile \in Calls \cup {None} /\ staging \in Calls \cup {None}
  /\ \A c \in Calls : disk[c] \in V!Files \cup {None, V!Torn}
KeysTyped == key \in 0..MaxKeys /\ keys \in 0..MaxKeys
RestTyped ==
  /\ item \in Calls \cup {None} /\ claimed \in Calls \cup {None} /\ scanning \in BOOLEAN
  /\ dialogs \subseteq Calls
MayTyped == may \subseteq V!Contents /\ \A c \in Calls : beside[c] \subseteq V!Contents

LEMMA VaultParts ==
  V!TypeOK <=> /\ platform \in Platforms /\ troubles \in 0..MaxTroubles
               /\ \A c \in Calls : CallTyped(c)
               /\ FilesTyped /\ KeysTyped /\ RestTyped /\ MayTyped
BY DEF V!TypeOK, CallTyped, FilesTyped, KeysTyped, RestTyped, MayTyped

LEMMA StepsCallTyped ==
  ASSUME Apart, MaxKeys \in Nat, Tables, NEW c \in Calls, CallTyped(c), InPlace(c), FilesTyped, KeysTyped, RestTyped,
         ReadsFile(c), Seals(c), KeysTyped, V!Steps(c)
  PROVE  CallTyped(c)'
<1> USE DEF Tables, V!At, V!Goes, V!Ends, CallTyped, V!Answers
<1>1. CASE V!complete_cancelled(c)
  BY <1>1 DEF V!complete_cancelled, V!Waits
<1>2. CASE V!open_or_create(c)
  BY <1>2 DEF V!open_or_create, KeysTyped
<1>3. CASE V!RequestCreate(c)
  BY <1>3 DEF V!RequestCreate, KeysTyped
<1>4. CASE V!cipher(c)
  BY <1>4, Ciphers DEF ReadsFile, V!Files, V!Torn, Apart
<1>5. CASE V!WriteStaging(c)
  BY <1>5 DEF V!WriteStaging, FilesTyped
<1>6. CASE V!WriteSealed(c)
  BY <1>6 DEF V!WriteSealed
<1>7. CASE V!Rename(c)
  BY <1>7 DEF V!Rename
<1>8. CASE V!ReadFile(c)
  BY <1>8, ReadsIn DEF FilesTyped
<1>9. CASE V!OpenToRead(c)
  BY <1>9 DEF V!OpenToRead, KeysTyped
<1>10. CASE V!discard(c)
  BY <1>10 DEF V!discard
<1>11. CASE V!DeleteKey(c)
  BY <1>11 DEF V!DeleteKey
<1>12. CASE V!is_file(c)
  BY <1>12 DEF V!is_file
<1>13. CASE V!OpenToLook(c)
  BY <1>13 DEF V!OpenToLook
<1>14. CASE V!Consent(c)
  BY <1>14 DEF V!Consent
<1>15. CASE V!DeleteItem(c)
  BY <1>15 DEF V!DeleteItem
<1>16. CASE V!AddItem(c)
  BY <1>16 DEF V!AddItem
<1>17. CASE V!CopyData(c)
  BY <1>17 DEF V!CopyData, RestTyped
<1>18. CASE V!ItemExists(c)
  BY <1>18 DEF V!ItemExists
<1>19. CASE V!until_cancelled(c)
  BY <1>19 DEF V!until_cancelled
<1>20. CASE V!Claim(c)
  BY <1>20 DEF V!Claim
<1>21. CASE V!VerifyStart(c)
  BY <1>21 DEF V!VerifyStart
<1>22. CASE V!scan(c)
  BY <1>22 DEF V!scan
<1>23. CASE V!scan_cancelled(c)
  BY <1>23 DEF V!scan_cancelled
<1>24. CASE V!VerifyStop(c)
  BY <1>24 DEF V!VerifyStop
<1>25. CASE V!Release(c)
  BY <1>25, Releases
<1>26. CASE V!Contains(c)
  BY <1>26 DEF V!Contains
<1>27. CASE V!CreateItem(c)
  BY <1>27 DEF V!CreateItem
<1>28. CASE V!CreatePrompt(c)
  BY <1>28 DEF V!CreatePrompt
<1>29. CASE V!find(c)
  BY <1>29 DEF V!find
<1>30. CASE V!GetSecret(c)
  BY <1>30 DEF V!GetSecret, RestTyped
<1>31. CASE V!ItemDelete(c)
  BY <1>31 DEF V!ItemDelete
<1> QED
  BY <1>1, <1>2, <1>3, <1>4, <1>5, <1>6, <1>7, <1>8, <1>9, <1>10, <1>11, <1>12, <1>13, <1>14,
     <1>15, <1>16, <1>17, <1>18, <1>19, <1>20, <1>21, <1>22, <1>23, <1>24, <1>25, <1>26, <1>27,
     <1>28, <1>29, <1>30, <1>31
  DEF V!Steps

LEMMA StepsRestTyped ==
  ASSUME NEW c \in Calls, Tables, InPlace(c), RestTyped, V!Steps(c)
  PROVE  RestTyped'
<1> USE DEF RestTyped, V!HelloOnly, V!readerVars, V!SystemOnly, V!KeyringOnly, V!helloVars
<1>1. CASE V!complete_cancelled(c)
  BY <1>1 DEF V!complete_cancelled, V!Waits
<1>2. CASE V!open_or_create(c)
  BY <1>2 DEF V!open_or_create
<1>3. CASE V!RequestCreate(c)
  BY <1>3 DEF V!RequestCreate
<1>4. CASE V!cipher(c)
  BY <1>4, Ciphers
<1>5. CASE V!WriteStaging(c)
  BY <1>5 DEF V!WriteStaging
<1>6. CASE V!WriteSealed(c)
  BY <1>6 DEF V!WriteSealed
<1>7. CASE V!Rename(c)
  BY <1>7 DEF V!Rename
<1>8. CASE V!ReadFile(c)
  BY <1>8, ReadsIn
<1>9. CASE V!OpenToRead(c)
  BY <1>9 DEF V!OpenToRead
<1>10. CASE V!discard(c)
  BY <1>10 DEF V!discard
<1>11. CASE V!DeleteKey(c)
  BY <1>11 DEF V!DeleteKey
<1>12. CASE V!is_file(c)
  BY <1>12 DEF V!is_file
<1>13. CASE V!OpenToLook(c)
  BY <1>13 DEF V!OpenToLook
<1>14. CASE V!Consent(c)
  BY <1>14 DEF V!Consent
<1>15. CASE V!DeleteItem(c)
  BY <1>15 DEF V!DeleteItem
<1>16. CASE V!AddItem(c)
  BY <1>16 DEF V!AddItem
<1>17. CASE V!CopyData(c)
  BY <1>17 DEF V!CopyData
<1>18. CASE V!ItemExists(c)
  BY <1>18 DEF V!ItemExists
<1>19. CASE V!until_cancelled(c)
  BY <1>19 DEF V!until_cancelled
<1>20. CASE V!Claim(c)
  BY <1>20 DEF V!Claim
<1>21. CASE V!VerifyStart(c)
  BY <1>21 DEF V!VerifyStart
<1>22. CASE V!scan(c)
  BY <1>22 DEF V!scan
<1>23. CASE V!scan_cancelled(c)
  BY <1>23 DEF V!scan_cancelled
<1>24. CASE V!VerifyStop(c)
  BY <1>24 DEF V!VerifyStop
<1>25. CASE V!Release(c)
  BY <1>25, Releases
<1>26. CASE V!Contains(c)
  BY <1>26 DEF V!Contains
<1>27. CASE V!CreateItem(c)
  BY <1>27 DEF V!CreateItem
<1>28. CASE V!CreatePrompt(c)
  BY <1>28 DEF V!CreatePrompt
<1>29. CASE V!find(c)
  BY <1>29 DEF V!find
<1>30. CASE V!GetSecret(c)
  BY <1>30 DEF V!GetSecret
<1>31. CASE V!ItemDelete(c)
  BY <1>31 DEF V!ItemDelete
<1> QED
  BY <1>1, <1>2, <1>3, <1>4, <1>5, <1>6, <1>7, <1>8, <1>9, <1>10, <1>11, <1>12, <1>13, <1>14,
     <1>15, <1>16, <1>17, <1>18, <1>19, <1>20, <1>21, <1>22, <1>23, <1>24, <1>25, <1>26, <1>27,
     <1>28, <1>29, <1>30, <1>31
  DEF V!Steps

\* Steps that leave the vault alone, and what it may hold.
Quiet(c) ==
  /\ UNCHANGED <<vaultFile, staging, disk, key, keys, item, may, beside>>
  /\ pc'[c] \notin {"writing", "rename", "delete_key"}

\* Steps that do not.
LoudOnWindows(c) ==
  \/ V!RequestCreate(c) \/ V!WriteStaging(c) \/ V!WriteSealed(c)
  \/ V!Rename(c) \/ V!discard(c) \/ V!DeleteKey(c)
LoudElsewhere(c) ==
  \/ V!DeleteItem(c) \/ V!AddItem(c) \/ V!CreateItem(c) \/ V!CreatePrompt(c) \/ V!find(c)
  \/ V!ItemDelete(c)

LEMMA StepsQuiet ==
  ASSUME Tables, NEW c \in Calls, InPlace(c), V!Steps(c), ~LoudOnWindows(c), ~LoudElsewhere(c)
  PROVE  Quiet(c)
<1> USE DEF Quiet, V!helloVars, V!HelloOnly, V!SystemOnly, V!KeyringOnly, V!readerVars, V!mayVars, V!At,
        V!Goes, V!Ends, Tables, LoudOnWindows, LoudElsewhere
<1>1. CASE V!complete_cancelled(c)
  BY <1>1 DEF V!complete_cancelled, V!Waits
<1>2. CASE V!open_or_create(c)
  BY <1>2 DEF V!open_or_create
<1>3. CASE V!RequestCreate(c)
  BY <1>3 DEF V!RequestCreate
<1>4. CASE V!cipher(c)
  BY <1>4, Ciphers
<1>5. CASE V!WriteStaging(c)
  BY <1>5 DEF V!WriteStaging
<1>6. CASE V!WriteSealed(c)
  BY <1>6 DEF V!WriteSealed
<1>7. CASE V!Rename(c)
  BY <1>7 DEF V!Rename
<1>8. CASE V!ReadFile(c)
  BY <1>8, ReadsIn
<1>9. CASE V!OpenToRead(c)
  BY <1>9 DEF V!OpenToRead
<1>10. CASE V!discard(c)
  BY <1>10 DEF V!discard
<1>11. CASE V!DeleteKey(c)
  BY <1>11 DEF V!DeleteKey
<1>12. CASE V!is_file(c)
  BY <1>12 DEF V!is_file
<1>13. CASE V!OpenToLook(c)
  BY <1>13 DEF V!OpenToLook
<1>14. CASE V!Consent(c)
  BY <1>14 DEF V!Consent
<1>15. CASE V!DeleteItem(c)
  BY <1>15 DEF V!DeleteItem
<1>16. CASE V!AddItem(c)
  BY <1>16 DEF V!AddItem
<1>17. CASE V!CopyData(c)
  BY <1>17 DEF V!CopyData
<1>18. CASE V!ItemExists(c)
  BY <1>18 DEF V!ItemExists
<1>19. CASE V!until_cancelled(c)
  BY <1>19 DEF V!until_cancelled
<1>20. CASE V!Claim(c)
  BY <1>20 DEF V!Claim
<1>21. CASE V!VerifyStart(c)
  BY <1>21 DEF V!VerifyStart
<1>22. CASE V!scan(c)
  BY <1>22 DEF V!scan
<1>23. CASE V!scan_cancelled(c)
  BY <1>23 DEF V!scan_cancelled
<1>24. CASE V!VerifyStop(c)
  BY <1>24 DEF V!VerifyStop
<1>25. CASE V!Release(c)
  BY <1>25, Releases
<1>26. CASE V!Contains(c)
  BY <1>26 DEF V!Contains
<1>27. CASE V!CreateItem(c)
  BY <1>27 DEF V!CreateItem
<1>28. CASE V!CreatePrompt(c)
  BY <1>28 DEF V!CreatePrompt
<1>29. CASE V!find(c)
  BY <1>29 DEF V!find
<1>30. CASE V!GetSecret(c)
  BY <1>30 DEF V!GetSecret
<1>31. CASE V!ItemDelete(c)
  BY <1>31 DEF V!ItemDelete
<1> QED
  BY <1>1, <1>2, <1>3, <1>4, <1>5, <1>6, <1>7, <1>8, <1>9, <1>10, <1>11, <1>12, <1>13, <1>14,
     <1>15, <1>16, <1>17, <1>18, <1>19, <1>20, <1>21, <1>22, <1>23, <1>24, <1>25, <1>26, <1>27,
     <1>28, <1>29, <1>30, <1>31
  DEF V!Steps

\* What the vault holds, case by case.
LEMMA HeldIs ==
  /\ platform # "windows" => V!Held = item
  /\ platform = "windows" /\ vaultFile = None => V!Held = None
  /\ platform = "windows" /\ vaultFile # None /\ disk[vaultFile] \notin V!Files => V!Held = V!Torn
  /\ platform = "windows" /\ vaultFile # None /\ disk[vaultFile] \in V!Files =>
       V!Held = IF disk[vaultFile].key = key THEN disk[vaultFile].secret ELSE None
BY DEF V!Held

LEMMA HeldWillBe ==
  /\ platform' # "windows" => V!Held' = item'
  /\ platform' = "windows" /\ vaultFile' = None => V!Held' = None
  /\ platform' = "windows" /\ vaultFile' # None /\ disk'[vaultFile'] \notin V!Files => V!Held' = V!Torn
  /\ platform' = "windows" /\ vaultFile' # None /\ disk'[vaultFile'] \in V!Files =>
       V!Held' = IF disk'[vaultFile'].key = key' THEN disk'[vaultFile'].secret ELSE None
BY DEF V!Held, V!Files

\* What a step of one call leaves the others.
LEMMA OthersStay ==
  ASSUME Tables, NEW c \in Calls, Took(c), NEW d \in Calls \ {c}
  PROVE  /\ InPlace(d) => InPlace(d)'
         /\ Gated(d) => Gated(d)'
         /\ CallTyped(d) => CallTyped(d)'
<1>1. /\ pc'[d] = pc[d] /\ answer'[d] = answer[d] /\ got'[d] = got[d] /\ signed'[d] = signed[d]
      /\ op'[d] = op[d] /\ platform' = platform /\ matched \subseteq matched'
  BY DEF Took
<1>2. InPlace(d) => InPlace(d)'
  BY <1>1 DEF InPlace, Rests
<1>3. Gated(d) => Gated(d)'
  BY <1>1 DEF Gated
<1>4. CallTyped(d) => CallTyped(d)'
  BY <1>1 DEF CallTyped, V!Files
<1> QED BY <1>2, <1>3, <1>4

\* How a step of a call may move what the calls reckon with.
Turns(c) ==
  \/ UNCHANGED <<may, beside>> /\ pc'[c] # "delete_key"
  \/ V!MayBe(V!Running \ {c}, {None}) /\ (op[c] = "read" => pc'[c] = "done")
  \/ V!Acknowledges(c) /\ Writing(c) /\ pc'[c] = "done"

LEMMA LoudTurns ==
  ASSUME Tables, NEW c \in Calls, InPlace(c), LoudOnWindows(c) \/ LoudElsewhere(c)
  PROVE  Turns(c)
<1> USE DEF Tables, V!At, V!Goes, V!Ends, V!mayVars, InPlace, OpsAt, Rests, Turns, Writing
<1>1. CASE V!RequestCreate(c)
  BY <1>1 DEF V!RequestCreate
<1>2. CASE V!WriteStaging(c) \/ V!WriteSealed(c)
  BY <1>2 DEF V!WriteStaging, V!WriteSealed
<1>3. CASE V!Rename(c)
  BY <1>3 DEF V!Rename
<1>4. CASE V!discard(c)
  BY <1>4 DEF V!discard
<1>5. CASE V!DeleteKey(c)
  BY <1>5 DEF V!DeleteKey
<1>6. CASE V!DeleteItem(c) \/ V!AddItem(c)
  BY <1>6 DEF V!DeleteItem, V!AddItem
<1>7. CASE V!CreateItem(c) \/ V!CreatePrompt(c)
  BY <1>7 DEF V!CreateItem, V!CreatePrompt
<1>8. CASE V!find(c)
  BY <1>8 DEF V!find
<1>9. CASE V!ItemDelete(c)
  BY <1>9 DEF V!ItemDelete
<1> QED BY <1>1, <1>2, <1>3, <1>4, <1>5, <1>6, <1>7, <1>8, <1>9 DEF LoudOnWindows, LoudElsewhere

\* What the others reckon with only grows.
LEMMA TurnsGrow ==
  ASSUME Tables, NEW c \in Calls, Turns(c)
  PROVE  \A d \in Calls : beside[d] \subseteq beside'[d]
<1>1. CASE UNCHANGED <<may, beside>>
  BY <1>1
<1>2. ASSUME NEW others, NEW what, V!Tells(others, what)
      PROVE  \A d \in Calls : beside[d] \subseteq beside'[d]
  BY <1>2 DEF V!Tells
<1> QED BY <1>1, <1>2 DEF Turns, V!MayBe, V!Acknowledges

LEMMA TurnsReckoned ==
  ASSUME Apart, Tables, Reckoned, NEW c \in Calls, Took(c), Turns(c)
  PROVE  Reckoned'
<1>1. /\ \A d \in Calls : Writing(d)' => Writing(d)
      /\ \A d \in Calls : IsStore(d)' => IsStore(d)
      /\ \A d \in Calls : ~Rests(d)' => ~Rests(d)
      /\ op' = op /\ platform' = platform
  BY DEF Took, Writing, IsStore, Rests
<1>2. \A d \in Calls : beside[d] \subseteq beside'[d]
  BY TurnsGrow
<1>3. \A d \in Calls : d \in V!Running <=> ~Rests(d)
  BY DEF V!Running, Rests
<1>4. ~Rests(c) /\ \A d \in Calls \ {c} : pc'[d] = pc[d]
  BY DEF Took, Rests
<1>5. Rivals'
  BY <1>1, <1>2 DEF Reckoned, Rivals
<1>6. CASE UNCHANGED <<may, beside>> /\ pc'[c] # "delete_key"
  <2>1. \A d \in Calls : pc'[d] = "delete_key" => pc[d] = "delete_key"
    BY <1>4, <1>6
  <2> QED BY <1>1, <1>5, <1>6, <2>1 DEF Reckoned, TornOrNone
<1>7. CASE V!MayBe(V!Running \ {c}, {None}) /\ (op[c] = "read" => pc'[c] = "done")
  <2>1. /\ may' = may \cup {None}
        /\ \A d \in Calls : beside'[d] = beside[d] \/ beside'[d] = beside[d] \cup {None}
        /\ \A d \in Calls \ {c} : ~Rests(d) => beside'[d] = beside[d] \cup {None}
    BY <1>3, <1>7 DEF V!MayBe, V!Tells
  <2>2. may' \subseteq V!Contents /\ \A d \in Calls : beside'[d] \subseteq V!Contents
    BY <2>1 DEF Reckoned, V!Contents
  <2>3. TornOrNone'
    BY <2>1 DEF Reckoned, TornOrNone, V!Torn
  <2>4. \A d \in Calls : ~Rests(d)' /\ op'[d] = "read" => may' \subseteq beside'[d]
    <3> SUFFICES ASSUME NEW d \in Calls, ~Rests(d)', op'[d] = "read" PROVE may' \subseteq beside'[d]
      OBVIOUS
    <3>1. d # c
      BY <1>1, <1>7 DEF Rests
    <3> QED BY <1>1, <2>1, <3>1 DEF Reckoned
  <2>5. \A d, e \in Calls : d # e /\ IsStore(d)' /\ pc'[e] = "delete_key" => None \in beside'[d]
    <3> SUFFICES ASSUME NEW d \in Calls, NEW e \in Calls, d # e, IsStore(d)', pc'[e] = "delete_key"
                 PROVE  None \in beside'[d]
      OBVIOUS
    <3>1. CASE d # c
      BY <1>1, <2>1, <3>1 DEF IsStore
    <3>2. CASE d = c
      BY <1>1, <1>2, <1>4, <3>2 DEF Reckoned
    <3> QED BY <3>1, <3>2
  <2> QED BY <1>1, <1>5, <2>1, <2>2, <2>3, <2>4, <2>5 DEF Reckoned
<1>8. CASE V!Acknowledges(c) /\ Writing(c) /\ pc'[c] = "done"
  <2> DEFINE now == beside[c] \cup {V!Outcome(c)}
  <2>1. /\ may' = now
        /\ \A d \in Calls : beside'[d] = beside[d] \/ beside'[d] = beside[d] \cup now
        /\ \A d \in Calls \ {c} : ~Rests(d) => beside'[d] = beside[d] \cup now
    BY <1>3, <1>8 DEF V!Acknowledges, V!Tells
  <2>2. V!Outcome(c) \in Calls \cup {None}
    BY DEF V!Outcome
  <2>3. now \subseteq V!Contents /\ (V!Torn \in now => None \in now)
    BY <2>2 DEF Reckoned, TornOrNone, V!Contents, Apart
  <2>4. \A d \in Calls : IsStore(d)' => d \in now
    <3> SUFFICES ASSUME NEW d \in Calls, IsStore(d)' PROVE d \in now
      OBVIOUS
    <3>1. d # c
      BY <1>8 DEF IsStore, Rests
    <3> QED BY <1>1, <1>8, <3>1 DEF Reckoned, Rivals
  <2>5. \A d \in Calls : ~Rests(d)' /\ op'[d] = "read" => may' \subseteq beside'[d]
    <3> SUFFICES ASSUME NEW d \in Calls, ~Rests(d)', op'[d] = "read" PROVE may' \subseteq beside'[d]
      OBVIOUS
    <3>1. d # c
      BY <1>8 DEF Rests
    <3> QED BY <1>1, <2>1, <3>1
  <2>6. \A d, e \in Calls : d # e /\ IsStore(d)' /\ pc'[e] = "delete_key" => None \in beside'[d]
    <3> SUFFICES ASSUME NEW d \in Calls, NEW e \in Calls, d # e, IsStore(d)', pc'[e] = "delete_key"
                 PROVE  None \in beside'[d]
      OBVIOUS
    <3>1. e # c /\ pc[e] = "delete_key"
      BY <1>4, <1>8
    <3> QED BY <1>1, <1>2, <3>1 DEF Reckoned
  <2>7. TornOrNone'
    BY <2>1, <2>3 DEF Reckoned, TornOrNone, V!Torn
  <2>8. \A d \in Calls : beside'[d] \subseteq V!Contents
    BY <2>1, <2>3 DEF Reckoned
  <2> HIDE DEF now
  <2> QED BY <1>5, <2>1, <2>3, <2>4, <2>5, <2>6, <2>7, <2>8 DEF Reckoned, V!Contents
<1> QED BY <1>6, <1>7, <1>8 DEF Turns

\* What is known when a call takes a step on Windows.
Known(c) ==
  /\ Apart /\ MaxKeys \in Nat /\ Tables /\ Took(c) /\ Turns(c)
  /\ FilesTyped /\ KeysTyped /\ Reckoned /\ Kept
  /\ \A d \in Calls : CallTyped(d) /\ InPlace(d)

\* What its step leaves the others.
Left(c) ==
  /\ op' = op /\ platform' = platform /\ platform = "windows" /\ ~Rests(c)
  /\ \A d \in Calls \ {c} : pc'[d] = pc[d] /\ got'[d] = got[d] /\ signed'[d] = signed[d]
  /\ \A d \in Calls : beside[d] \subseteq beside'[d]

LEMMA KnownLeft ==
  ASSUME NEW c \in Calls, Known(c), pc[c] \in OnWindows
  PROVE  Left(c)
BY TurnsGrow DEF Known, Left, Took, InPlace, Rests

LEMMA StoresMeet ==
  ASSUME NEW c \in Calls, Known(c), Left(c), op[c] = "store",
         NEW d \in Calls \ {c}, pc[d] \in {"write", "writing", "rename"}
  PROVE  c \in beside[d] /\ d \in beside[c] /\ V!Torn \in beside[d] /\ V!Torn \in beside[c]
         /\ None \in beside[d] /\ None \in beside[c]
<1>1. ~Rests(d) /\ op[d] = "store"
  BY DEF Known, InPlace, OpsAt, Rests
<1>2. Rivals /\ TornOrNone
  BY DEF Known, Reckoned
<1>3. c \in beside[d] /\ d \in beside[c] /\ V!Torn \in beside[d] /\ V!Torn \in beside[c]
  BY <1>1, <1>2 DEF Rivals, IsStore, Writing, Left
<1> QED BY <1>2, <1>3 DEF TornOrNone

\* A call beside a step that leaves the file, the keys and what is reckoned with.
LEMMA OtherHand ==
  ASSUME NEW c \in Calls, Known(c), Left(c), NEW d \in Calls \ {c}, V!Held' = V!Held,
         UNCHANGED <<vaultFile, staging, disk, key, keys>>, may \subseteq may'
  PROVE  Hand(d)'
<1>1. Hand(d) /\ pc'[d] = pc[d] /\ got'[d] = got[d] /\ signed'[d] = signed[d] /\ op'[d] = op[d]
      /\ beside[d] \subseteq beside'[d]
  BY DEF Known, Kept, Left
<1>2. Seals(d)' /\ Staged(d)' /\ ReadsFile(d)'
  BY <1>1 DEF Hand, Seals, Staged, ReadsFile, V!Files
<1>3. Unsettled(d)'
  <2>1. \A e \in Calls : Writing(e)' => Writing(e)
    BY DEF Left, Writing, Rests
  <2> QED BY <1>1, <2>1 DEF Hand, Unsettled, Left, V!Torn
<1>4. Settling(d)'
  BY <1>1 DEF Hand, Settling
<1> QED BY <1>2, <1>3, <1>4 DEF Hand

\* A call whose step leaves the vault alone and that comes to nothing special.
LEMMA Faded ==
  ASSUME NEW c \in Calls, Known(c), Left(c), pc'[c] = "done",
         UNCHANGED <<vaultFile, staging, disk, key, keys, item, may, beside>>
  PROVE  Kept'
<1>1. Sealing' /\ Fresh' /\ V!Held' = V!Held
  <2>1. Sealing'
    BY DEF Known, Kept, Sealing, V!Files
  <2>2. Fresh'
    BY DEF Known, Kept, Fresh, Left
  <2>3. V!Held' = V!Held
    BY DEF Left, V!Held, V!Files
  <2> QED BY <2>1, <2>2, <2>3
<1>2. Hand(c)'
  BY DEF Hand, Seals, Staged, ReadsFile, Unsettled, Settling
<1>3. ASSUME NEW d \in Calls \ {c} PROVE Hand(d)'
  BY <1>1, OtherHand
<1> QED BY <1>1, <1>2, <1>3 DEF Kept, Known

\* A key that is gone opens nothing.
LEMMA KeyGone ==
  ASSUME MaxKeys \in Nat, FilesTyped, KeysTyped, Sealing, Apart, platform' = platform, platform = "windows",
         vaultFile' = vaultFile, disk' = disk, key' = 0 \/ key' = keys + 1
  PROVE  V!Held' = None \/ (V!Held' = V!Held /\ V!Held = V!Torn)
<1>1. CASE vaultFile = None
  BY <1>1, HeldWillBe
<1>2. CASE vaultFile # None /\ disk[vaultFile] \notin V!Files
  BY <1>2, HeldIs, HeldWillBe
<1>3. CASE vaultFile # None /\ disk[vaultFile] \in V!Files
  <2>1. disk[vaultFile].key \in 1..MaxKeys /\ disk[vaultFile].key <= keys /\ keys \in Nat
    BY <1>3 DEF FilesTyped, KeysTyped, Sealing, V!Files
  <2>2. disk[vaultFile].key # key'
    BY <2>1
  <2> QED BY <1>3, <2>2, HeldWillBe
<1> QED BY <1>1, <1>2, <1>3

LEMMA KeepsRequestCreate ==
  ASSUME NEW c \in Calls, Known(c), V!RequestCreate(c)
  PROVE  Kept'
<1>1. pc[c] = "create" /\ op[c] = "store" /\ Left(c)
  BY KnownLeft DEF V!RequestCreate, V!At, Known, InPlace, OpsAt, Rests, OnWindows
<1>2. CASE keys < MaxKeys /\ keys' = keys + 1 /\ key' = keys + 1 /\ signed' = [signed EXCEPT ![c] = keys + 1]
           /\ V!MayBe(V!Running \ {c}, {None}) /\ V!Goes(c, "sign")
  <2>1. UNCHANGED <<got, vaultFile, staging, disk>> /\ pc'[c] = "sign" /\ signed'[c] = keys + 1
    BY <1>2 DEF V!RequestCreate, V!Goes, Known, Tables
  <2>2. key \in Nat /\ keys \in Nat /\ key <= keys /\ MaxKeys \in Nat
    BY DEF Known, KeysTyped, Kept, Sealing
  <2>3. Sealing'
    <3>1. \A d \in Calls : disk[d] \in V!Files => disk[d].key \in Nat /\ disk[d].key <= keys
      BY <2>2 DEF Known, Kept, Sealing, V!Files
    <3>2. \A d \in Calls : disk[d] \in V!Files => disk[d].key <= keys'
      BY <1>2, <2>2, <3>1
    <3>3. key' <= keys'
      BY <1>2, <2>2
    <3> QED BY <2>1, <3>2, <3>3 DEF Sealing, V!Files
  <2>4. Fresh'
    BY <1>1, <2>1 DEF Known, Kept, Fresh, Left
  <2>5. \A d \in Calls \ {c} : ~Rests(d) => None \in beside'[d]
    BY <1>2 DEF V!MayBe, V!Tells, V!Running, Rests
  <2>6. may' = may \cup {None}
    BY <1>2 DEF V!MayBe
  <2>7. V!Held' = None \/ (V!Held' = V!Held /\ V!Held = V!Torn)
    BY <1>1, <1>2, <2>1, KeyGone DEF Known, Kept, Left
  <2>8. Hand(c)'
    <3>1. Seals(c)'
      BY <1>2, <2>1, <2>2 DEF Seals
    <3> QED BY <1>1, <2>1, <3>1 DEF Hand, Staged, ReadsFile, Unsettled, Settling, Left
  <2>9. ASSUME NEW d \in Calls \ {c} PROVE Hand(d)'
    <3>1. Hand(d) /\ pc'[d] = pc[d] /\ got'[d] = got[d] /\ signed'[d] = signed[d] /\ op'[d] = op[d]
          /\ beside[d] \subseteq beside'[d]
      BY <1>1 DEF Known, Kept, Left
    <3>2. Seals(d)'
      <4>1. \A n \in 1..keys : n \in 1..keys'
        BY <1>2, <2>2
      <4> QED BY <2>5, <3>1, <4>1 DEF Hand, Seals, Rests
    <3>3. Staged(d)'
      BY <2>1, <3>1 DEF Hand, Staged, V!Files
    <3>4. ReadsFile(d)'
      <4>1. \A f \in V!Files : f.key <= keys => f.key <= keys' /\ f.key # key'
        BY <1>2, <2>2 DEF V!Files
      <4> QED BY <3>1, <4>1 DEF Hand, ReadsFile, V!Files
    <3>5. Unsettled(d)'
      <4>1. \A e \in Calls : Writing(e)' => Writing(e)
        BY <1>1 DEF Left, Writing, Rests
      <4> QED BY <1>1, <2>1, <2>6, <3>1, <4>1 DEF Hand, Unsettled, Left, V!Torn
    <3>6. Settling(d)'
      BY <2>7, <3>1 DEF Hand, Settling
    <3> QED BY <3>2, <3>3, <3>4, <3>5, <3>6 DEF Hand
  <2>10. V!Held' \in may'
    BY <2>6, <2>7 DEF Known, Kept
  <2> QED BY <2>3, <2>4, <2>8, <2>9, <2>10 DEF Kept
<1>3. CASE V!Ends(c, "error") /\ UNCHANGED <<signed, key, keys, may, beside>>
  <2>1. UNCHANGED <<vaultFile, staging, disk, key, keys, item, may, beside>> /\ pc'[c] = "done"
    BY <1>3 DEF V!RequestCreate, V!Ends, V!HelloOnly, Known, Tables
  <2> QED BY <1>1, <2>1, Faded
<1> QED BY <1>2, <1>3 DEF V!RequestCreate, V!mayVars

LEMMA KeepsWriteStaging ==
  ASSUME NEW c \in Calls, Known(c), V!WriteStaging(c)
  PROVE  Kept'
<1>1. pc[c] = "write" /\ op[c] = "store" /\ Left(c) /\ UNCHANGED <<vaultFile, key, keys, item, may, beside>>
  BY KnownLeft DEF V!WriteStaging, V!At, V!mayVars, V!HelloOnly, Known, InPlace, OpsAt, Rests, OnWindows
<1>2. CASE V!Ends(c, "error") /\ UNCHANGED <<staging, disk, got>>
  BY <1>1, <1>2, Faded DEF V!Ends, Known, Tables
<1>3. ASSUME NEW f, f = (IF staging = None THEN c ELSE staging), staging' = f, disk' = [disk EXCEPT ![f] = None],
             got' = [got EXCEPT ![c] = f], V!Goes(c, "writing"), signed' = signed
      PROVE  Kept'
  <2>1. f \in Calls /\ f # vaultFile /\ f # None
    BY <1>1, <1>3 DEF Known, Kept, Fresh, FilesTyped, Apart
  <2>2. /\ pc'[c] = "writing" /\ got'[c] = f /\ disk'[f] = None
        /\ \A d \in Calls \ {f} : disk'[d] = disk[d]
    BY <1>3, <2>1 DEF Known, Tables, V!Goes
  <2>3. None \notin V!Files
    BY DEF Known, Apart
  <2>4. Sealing'
    BY <1>1, <2>2, <2>3 DEF Known, Kept, Sealing, V!Files
  <2>5. Fresh'
    BY <1>1, <1>3, <2>1, <2>2 DEF Known, Kept, Fresh, Left
  <2>6. V!Held' = V!Held
    <3>1. vaultFile # None => disk'[vaultFile] = disk[vaultFile]
      BY <2>1, <2>2 DEF Known, FilesTyped
    <3> QED BY <1>1, <3>1, HeldIs, HeldWillBe DEF Left
  <2>7. Hand(c)'
    <3>1. Seals(c)'
      BY <1>1, <1>3, <2>2 DEF Known, Kept, Hand, Seals
    <3>2. Staged(c)'
      BY <1>3, <2>1, <2>2, <2>3 DEF Staged, V!Files
    <3> QED BY <1>1, <2>1, <2>2, <3>1, <3>2 DEF Hand, ReadsFile, Unsettled, Settling, Left
  <2>8. ASSUME NEW d \in Calls \ {c} PROVE Hand(d)'
    <3>1. Hand(d) /\ pc'[d] = pc[d] /\ got'[d] = got[d] /\ signed'[d] = signed[d] /\ op'[d] = op[d]
      BY <1>1 DEF Known, Kept, Left
    <3>2. Seals(d)' /\ ReadsFile(d)'
      BY <1>1, <3>1 DEF Hand, Seals, ReadsFile, V!Files
    <3>3. Staged(d)'
      <4>1. pc[d] \in {"writing", "rename"} => V!Torn \in beside[d]
        BY <1>1, StoresMeet
      <4>2. disk'[staging'] = None
        BY <1>3, <2>2
      <4> QED BY <1>1, <2>3, <3>1, <4>1, <4>2 DEF Hand, Staged, V!Files, V!Torn
    <3>4. Unsettled(d)'
      <4>1. \A e \in Calls : Writing(e)' => Writing(e)
        BY <1>1 DEF Left, Writing, Rests
      <4> QED BY <1>1, <3>1, <4>1 DEF Hand, Unsettled, V!Torn
    <3>5. Settling(d)'
      BY <1>1, <2>6, <3>1 DEF Hand, Settling
    <3> QED BY <3>2, <3>3, <3>4, <3>5 DEF Hand
  <2> QED BY <1>1, <2>4, <2>5, <2>6, <2>7, <2>8 DEF Known, Kept
<1> QED BY <1>2, <1>3 DEF V!WriteStaging

LEMMA KeepsWriteSealed ==
  ASSUME NEW c \in Calls, Known(c), V!WriteSealed(c)
  PROVE  Kept'
<1>1. pc[c] = "writing" /\ op[c] = "store" /\ Left(c)
      /\ UNCHANGED <<vaultFile, staging, key, keys, item, may, beside, got, signed>>
  BY KnownLeft DEF V!WriteSealed, V!At, V!mayVars, V!HelloOnly, Known, InPlace, OpsAt, Rests, OnWindows
<1> DEFINE mine == [secret |-> c, key |-> signed[c]]
<1>2. /\ Hand(c) /\ got[c] \in Calls /\ signed[c] \in 1..keys /\ keys \in 0..MaxKeys /\ MaxKeys \in Nat
      /\ c \in may /\ \A d \in Calls \ {c} : Writing(d) => c \in beside[d]
      /\ IsStore(c) /\ TornOrNone
  BY <1>1 DEF Known, Kept, Hand, Staged, Seals, KeysTyped, Reckoned, Rivals, IsStore, Writing, Left
<1>3. mine \in V!Files /\ mine.secret = c /\ mine.key = signed[c] /\ mine.key <= keys
  BY <1>2 DEF V!Files
<1>4. V!Torn \notin V!Files /\ None \notin V!Files /\ V!Torn \notin Calls
  BY DEF Known, Apart, V!Torn, V!Files
<1> HIDE DEF mine
<1>5. /\ disk'[got[c]] = mine \/ (disk[got[c]] # None /\ disk'[got[c]] = V!Torn)
      /\ \A d \in Calls \ {got[c]} : disk'[d] = disk[d]
      /\ pc'[c] = "rename"
  BY <1>2 DEF V!WriteSealed, V!Goes, Known, Tables, mine
<1>6. Sealing'
  BY <1>1, <1>3, <1>4, <1>5 DEF Known, Kept, Sealing, V!Files
<1>7. Fresh'
  BY <1>1, <1>5 DEF Known, Kept, Fresh, Left
<1>8. /\ V!Held' \in {V!Held, c, None, V!Torn}
      /\ V!Held' \notin {V!Held, c} => Unsettled(c) /\ got[c] = vaultFile
  <2>1. CASE vaultFile = None
    BY <1>1, <2>1, HeldIs, HeldWillBe DEF Left
  <2>2. CASE vaultFile # None /\ vaultFile # got[c]
    <3>1. disk'[vaultFile] = disk[vaultFile]
      BY <1>5, <2>2 DEF Known, FilesTyped
    <3> QED BY <1>1, <2>2, <3>1, HeldIs, HeldWillBe DEF Left
  <2>3. CASE vaultFile # None /\ vaultFile = got[c]
    <3>1. CASE disk'[vaultFile'] = V!Torn
      BY <1>1, <1>2, <1>4, <2>3, <3>1, HeldWillBe DEF Left, Hand
    <3>2. CASE disk'[vaultFile'] = mine
      BY <1>1, <1>2, <1>3, <2>3, <3>2, HeldWillBe DEF Left, Hand
    <3> QED BY <1>1, <1>5, <2>3, <3>1, <3>2
  <2> QED BY <2>1, <2>2, <2>3
<1>9. \A d \in Calls : Writing(d) => V!Held' \in {V!Held, c} \cup beside[d]
  <2> SUFFICES ASSUME NEW d \in Calls, Writing(d), V!Held' \notin {V!Held, c}
               PROVE  V!Held' \in beside[d]
    OBVIOUS
  <2>1. V!Torn \in beside[d] /\ None \in beside[d]
    BY <1>1, <1>2, <1>8 DEF Unsettled, TornOrNone
  <2> QED BY <1>8, <2>1
<1>10. V!Held' \in may'
  <2>1. V!Held' \notin {V!Held, c} => V!Torn \in may /\ None \in may
    BY <1>1, <1>2, <1>8 DEF Unsettled, TornOrNone
  <2> QED BY <1>1, <1>2, <1>8, <2>1 DEF Known, Kept
<1>11. Hand(c)'
  <2>1. Seals(c)'
    BY <1>1, <1>2, <1>5 DEF Hand, Seals
  <2>2. Staged(c)'
    <3>1. V!Torn \notin beside[c] => staging = got[c] /\ disk[got[c]] = None
      BY <1>1, <1>2 DEF Hand, Staged
    <3>2. V!Torn \notin beside[c] => disk'[got[c]] = mine
      BY <1>5, <3>1
    <3>3. staging # None /\ disk'[staging] \in V!Files => disk'[staging].secret \in beside[c] \cup {c}
      <4>1. CASE staging = got[c]
        BY <1>3, <1>4, <1>5, <4>1
      <4>2. CASE staging # got[c] /\ staging # None
        BY <1>1, <1>2, <1>5, <4>2 DEF Hand, Staged, Known, FilesTyped
      <4> QED BY <4>1, <4>2
    <3> QED BY <1>1, <1>2, <1>5, <3>1, <3>2, <3>3 DEF Staged, V!Files, V!Torn, mine
  <2> QED BY <1>1, <1>5, <2>1, <2>2 DEF Hand, ReadsFile, Unsettled, Settling, Left
<1>12. ASSUME NEW d \in Calls \ {c} PROVE Hand(d)'
  <2>1. Hand(d) /\ pc'[d] = pc[d] /\ got'[d] = got[d] /\ signed'[d] = signed[d] /\ op'[d] = op[d]
    BY <1>1 DEF Known, Kept, Left
  <2>2. Seals(d)' /\ ReadsFile(d)'
    BY <1>1, <2>1 DEF Hand, Seals, ReadsFile, V!Files
  <2>3. Staged(d)'
    <3>1. pc[d] \in {"writing", "rename"} => V!Torn \in beside[d] /\ c \in beside[d]
      BY <1>1, StoresMeet
    <3>2. pc[d] \in {"writing", "rename"} =>
            (staging # None /\ disk'[staging] \in V!Files => disk'[staging].secret \in beside[d] \cup {d})
      <4>1. CASE staging = got[c]
        BY <1>3, <1>4, <1>5, <3>1, <4>1
      <4>2. CASE staging # got[c] /\ staging # None
        BY <1>5, <2>1, <4>2 DEF Hand, Staged, Known, FilesTyped
      <4> QED BY <4>1, <4>2
    <3> QED BY <1>1, <2>1, <3>1, <3>2 DEF Hand, Staged, V!Files, V!Torn
  <2>4. Unsettled(d)'
    <3>1. \A e \in Calls : Writing(e)' => Writing(e)
      BY <1>1 DEF Left, Writing, Rests
    <3> QED BY <1>1, <2>1, <3>1 DEF Hand, Unsettled, V!Torn
  <2>5. Settling(d)'
    <3> SUFFICES ASSUME pc[d] = "delete_key" PROVE V!Held' \in beside[d] \cup {None}
      BY <1>1, <2>1 DEF Settling
    <3>1. Writing(d) /\ d # c
      BY <1>1 DEF Known, InPlace, OpsAt, Rests, Writing
    <3> QED BY <1>2, <1>9, <2>1, <3>1 DEF Hand, Settling
  <2> QED BY <2>2, <2>3, <2>4, <2>5 DEF Hand
<1> QED BY <1>6, <1>7, <1>10, <1>11, <1>12 DEF Kept

LEMMA KeepsRename ==
  ASSUME NEW c \in Calls, Known(c), V!Rename(c)
  PROVE  Kept'
<1>1. pc[c] = "rename" /\ op[c] = "store" /\ Left(c) /\ UNCHANGED <<key, keys, item, disk, got, signed>>
      /\ pc'[c] = "done"
  BY KnownLeft DEF V!Rename, V!At, V!Ends, V!HelloOnly, Known, InPlace, OpsAt, Rests, OnWindows, Tables
<1>2. CASE V!Ends(c, "error") /\ UNCHANGED <<vaultFile, staging, may, beside>>
  BY <1>1, <1>2, Faded
<1>3. CASE staging # None /\ vaultFile' = staging /\ staging' = None /\ V!Acknowledges(c)
  <2> DEFINE now == beside[c] \cup {c}
  <2>1. may' = now /\ \A d \in Calls \ {c} : ~Rests(d) => now \subseteq beside'[d]
    BY <1>1, <1>3 DEF V!Acknowledges, V!Outcome, V!Tells, V!Running, Rests
  <2>2. Hand(c) /\ TornOrNone /\ staging \in Calls /\ IsStore(c)
    BY <1>1, <1>3 DEF Known, Kept, Reckoned, FilesTyped, IsStore, Left
  <2>3. V!Torn \notin V!Files /\ None \notin V!Files /\ V!Torn \notin Calls /\ None \notin Calls
    BY DEF Known, Apart, V!Torn, V!Files
  <2>4. V!Held' \in now
    <3>1. V!Torn \in now <=> V!Torn \in beside[c]
      BY <2>3
    <3>2. V!Torn \notin beside[c] => disk[staging] = [secret |-> c, key |-> signed[c]]
      BY <1>1, <2>2 DEF Hand, Staged
    <3>3. None \notin beside[c] => signed[c] = key /\ V!Torn \notin beside[c]
      BY <1>1, <2>2 DEF Hand, Seals, TornOrNone
    <3>4. signed[c] \in 1..MaxKeys
      BY <1>1, <2>2 DEF Hand, Seals, Known, KeysTyped
    <3>5. [secret |-> c, key |-> signed[c]] \in V!Files
      BY <3>4 DEF V!Files
    <3>6. CASE disk[staging] \notin V!Files
      BY <1>1, <1>3, <2>2, <3>2, <3>5, <3>6, HeldWillBe DEF Left
    <3>7. CASE disk[staging] \in V!Files /\ disk[staging].key = key
      <4>1. disk[staging].secret \in now
        BY <1>1, <1>3, <2>2, <3>7 DEF Hand, Staged
      <4> QED BY <1>1, <1>3, <3>7, <4>1, HeldWillBe DEF Left
    <3>8. CASE disk[staging] \in V!Files /\ disk[staging].key # key
      <4>1. None \in beside[c]
        BY <3>2, <3>3, <3>8
      <4> QED BY <1>1, <1>3, <3>8, <4>1, HeldWillBe DEF Left
    <3> QED BY <3>6, <3>7, <3>8
  <2>5. Sealing'
    BY <1>1 DEF Known, Kept, Sealing, V!Files
  <2>6. Fresh'
    BY <1>1, <1>3, <2>3 DEF Known, Kept, Fresh, Left
  <2>7. Hand(c)'
    BY <1>1 DEF Hand, Seals, Staged, ReadsFile, Unsettled, Settling
  <2>8. ASSUME NEW d \in Calls \ {c} PROVE Hand(d)'
    <3>1. Hand(d) /\ pc'[d] = pc[d] /\ got'[d] = got[d] /\ signed'[d] = signed[d] /\ op'[d] = op[d]
          /\ beside[d] \subseteq beside'[d]
      BY <1>1 DEF Known, Kept, Left
    <3>2. Seals(d)' /\ ReadsFile(d)'
      BY <1>1, <3>1 DEF Hand, Seals, ReadsFile, V!Files
    <3>3. Staged(d)'
      <4>1. pc[d] \in {"writing", "rename"} => V!Torn \in beside[d]
        BY <1>1, StoresMeet
      <4> QED BY <1>1, <1>3, <3>1, <4>1 DEF Hand, Staged, V!Files, V!Torn
    <3>4. Unsettled(d)'
      <4> SUFFICES ASSUME pc[d] = "writing", got[d] = staging
                   PROVE  V!Torn \in may' /\ \A e \in Calls : Writing(e)' => V!Torn \in beside'[e]
        BY <1>3, <3>1 DEF Unsettled, V!Torn
      <4>1. V!Torn \in beside[c]
        BY <1>1, StoresMeet
      <4>2. \A e \in Calls : Writing(e)' => e # c /\ ~Rests(e)
        BY <1>1 DEF Left, Writing, Rests
      <4> QED BY <2>1, <4>1, <4>2
    <3>5. Settling(d)'
      <4>1. pc[d] = "delete_key" => ~Rests(d)
        BY DEF Rests
      <4> QED BY <2>1, <2>4, <3>1, <4>1 DEF Settling
    <3> QED BY <3>2, <3>3, <3>4, <3>5 DEF Hand
  <2>9. V!Held' \in may'
    BY <2>1, <2>4
  <2> QED BY <2>5, <2>6, <2>7, <2>8, <2>9 DEF Kept
<1> QED BY <1>2, <1>3 DEF V!Rename, V!mayVars

LEMMA QuietHand ==
  ASSUME Apart, MaxKeys \in Nat, KeysTyped, FilesTyped, Tables, Sealing, V!Held \in may,
         NEW c \in Calls, InPlace(c), Seals(c), ReadsFile(c), CallTyped(c), Took(c),
         op[c] = "read" => may \subseteq beside[c],
         UNCHANGED <<vaultFile, disk, key, keys, may, beside>>,
         V!Steps(c), ~LoudOnWindows(c), ~LoudElsewhere(c)
  PROVE  Seals(c)' /\ ReadsFile(c)'
<1> USE DEF V!At, V!Goes, V!Ends, Tables, Seals, ReadsFile
<1>1. CASE V!complete_cancelled(c)
  BY <1>1 DEF V!complete_cancelled, V!Waits
<1>2. CASE V!open_or_create(c)
  BY <1>2 DEF V!open_or_create, InPlace, OpsAt, Rests, KeysTyped, Sealing
<1>3. CASE V!RequestCreate(c)
  BY <1>3 DEF LoudOnWindows, LoudElsewhere
<1>4. CASE V!cipher(c)
  BY <1>4, Ciphers
<1>5. CASE V!WriteStaging(c)
  BY <1>5 DEF LoudOnWindows, LoudElsewhere
<1>6. CASE V!WriteSealed(c)
  BY <1>6 DEF LoudOnWindows, LoudElsewhere
<1>7. CASE V!Rename(c)
  BY <1>7 DEF LoudOnWindows, LoudElsewhere
<1>8. CASE V!ReadFile(c)
  <2>1. CASE pc'[c] = "done"
    BY <2>1
  <2>2. CASE pc' = [pc EXCEPT ![c] = "open_read"] /\ got' = [got EXCEPT ![c] = disk[vaultFile]]
             /\ vaultFile # None /\ disk[vaultFile] # None
    <3>1. pc'[c] = "open_read" /\ got'[c] = disk[vaultFile] /\ vaultFile \in Calls /\ platform = "windows"
          /\ op[c] = "read" /\ op' = op
      BY <1>8, <2>2 DEF FilesTyped, InPlace, OpsAt, Rests, OnWindows, V!ReadFile
    <3>2. disk[vaultFile] \in V!Files \cup {V!Torn}
      BY <2>2, <3>1 DEF FilesTyped
    <3>3. disk[vaultFile] \in V!Files /\ disk[vaultFile].key = key => disk[vaultFile].secret \in beside[c]
      BY <2>2, <3>1, HeldIs
    <3> QED BY <3>1, <3>2, <3>3 DEF Sealing, V!Files, V!Torn
  <2> QED BY <1>8, <2>1, <2>2, ReadsIn
<1>9. CASE V!OpenToRead(c)
  <2>1. op[c] = "read" /\ pc[c] = "open_read" /\ got' = got /\ op' = op
    BY <1>9 DEF V!OpenToRead, InPlace, OpsAt, Rests
  <2>2. CASE key # 0 /\ signed' = [signed EXCEPT ![c] = key] /\ V!Goes(c, "sign")
    <3>1. pc'[c] = "sign" /\ signed'[c] = key /\ key \in 1..keys
      BY <2>2 DEF KeysTyped, Sealing
    <3> QED BY <2>1, <3>1 DEF V!Files, V!Torn
  <2>3. CASE key = 0 /\ V!Goes(c, "discard")
    <3>1. pc'[c] = "discard" /\ \A f \in V!Files : f.key # 0
      BY <2>3 DEF V!Files
    <3> QED BY <2>1, <2>3, <3>1 DEF V!Files, V!Torn
  <2>4. CASE V!Ends(c, "error")
    BY <2>4
  <2> QED BY <1>9, <2>2, <2>3, <2>4 DEF V!OpenToRead
<1>10. CASE V!discard(c)
  BY <1>10 DEF LoudOnWindows, LoudElsewhere
<1>11. CASE V!DeleteKey(c)
  BY <1>11 DEF LoudOnWindows, LoudElsewhere
<1>12. CASE V!is_file(c)
  BY <1>12 DEF V!is_file
<1>13. CASE V!OpenToLook(c)
  BY <1>13 DEF V!OpenToLook
<1>14. CASE V!Consent(c)
  BY <1>14 DEF V!Consent
<1>15. CASE V!DeleteItem(c)
  BY <1>15 DEF LoudOnWindows, LoudElsewhere
<1>16. CASE V!AddItem(c)
  BY <1>16 DEF LoudOnWindows, LoudElsewhere
<1>17. CASE V!CopyData(c)
  BY <1>17 DEF V!CopyData
<1>18. CASE V!ItemExists(c)
  BY <1>18 DEF V!ItemExists
<1>19. CASE V!until_cancelled(c)
  BY <1>19 DEF V!until_cancelled
<1>20. CASE V!Claim(c)
  BY <1>20 DEF V!Claim
<1>21. CASE V!VerifyStart(c)
  BY <1>21 DEF V!VerifyStart
<1>22. CASE V!scan(c)
  BY <1>22 DEF V!scan
<1>23. CASE V!scan_cancelled(c)
  BY <1>23 DEF V!scan_cancelled
<1>24. CASE V!VerifyStop(c)
  BY <1>24 DEF V!VerifyStop
<1>25. CASE V!Release(c)
  BY <1>25, Releases
<1>26. CASE V!Contains(c)
  BY <1>26 DEF V!Contains
<1>27. CASE V!CreateItem(c)
  BY <1>27 DEF LoudOnWindows, LoudElsewhere
<1>28. CASE V!CreatePrompt(c)
  BY <1>28 DEF LoudOnWindows, LoudElsewhere
<1>29. CASE V!find(c)
  BY <1>29 DEF LoudOnWindows, LoudElsewhere
<1>30. CASE V!GetSecret(c)
  BY <1>30 DEF V!GetSecret
<1>31. CASE V!ItemDelete(c)
  BY <1>31 DEF LoudOnWindows, LoudElsewhere
<1> QED
  BY <1>1, <1>2, <1>3, <1>4, <1>5, <1>6, <1>7, <1>8, <1>9, <1>10, <1>11, <1>12, <1>13, <1>14,
     <1>15, <1>16, <1>17, <1>18, <1>19, <1>20, <1>21, <1>22, <1>23, <1>24, <1>25, <1>26, <1>27,
     <1>28, <1>29, <1>30, <1>31
  DEF V!Steps

LEMMA KeepsDiscard ==
  ASSUME NEW c \in Calls, Known(c), V!discard(c)
  PROVE  Kept'
<1>1. pc[c] = "discard" /\ op[c] \in {"read", "delete"} /\ Left(c)
      /\ UNCHANGED <<staging, disk, key, keys, item, got, signed>> /\ pc'[c] \in {"done", "delete_key"}
  BY KnownLeft DEF V!discard, V!At, V!Ends, V!Goes, V!HelloOnly, Known, InPlace, OpsAt, Rests, OnWindows, Tables
<1>2. CASE V!Ends(c, "error") /\ UNCHANGED <<vaultFile, may, beside>>
  BY <1>1, <1>2, Faded DEF V!Ends, Known, Tables
<1>3. CASE /\ vaultFile' = None
           /\ IF op[c] = "delete" \/ (vaultFile # None /\ disk[vaultFile] # got[c])
              THEN V!MayBe(V!Running \ {c}, {None}) ELSE UNCHANGED <<may, beside>>
  <2>1. V!Held' = None
    BY <1>1, <1>3, HeldWillBe DEF Left
  <2>2. may \subseteq may'
    BY <1>3 DEF V!MayBe
  <2>3. None \in may'
    <3>1. CASE op[c] = "delete" \/ (vaultFile # None /\ disk[vaultFile] # got[c])
      BY <1>3, <3>1 DEF V!MayBe
    <3>2. CASE op[c] = "read" /\ (vaultFile = None \/ disk[vaultFile] = got[c])
      <4>1. V!Held \in may /\ TornOrNone /\ ReadsFile(c)
        BY DEF Known, Kept, Hand, Reckoned
      <4>2. V!Held \in {None, V!Torn}
        BY <1>1, <3>2, <4>1, HeldIs DEF Left, ReadsFile
      <4> QED BY <2>2, <4>1, <4>2 DEF TornOrNone
    <3> QED BY <1>1, <3>1, <3>2
  <2>4. None \notin Calls
    BY DEF Known, Apart
  <2>5. Sealing'
    BY <1>1 DEF Known, Kept, Sealing, V!Files
  <2>6. Fresh'
    BY <1>1, <1>3, <2>4 DEF Known, Kept, Fresh, Left
  <2>7. Hand(c)'
    BY <1>1, <2>1 DEF Hand, Seals, Staged, ReadsFile, Unsettled, Settling
  <2>8. ASSUME NEW d \in Calls \ {c} PROVE Hand(d)'
    <3>1. Hand(d) /\ pc'[d] = pc[d] /\ got'[d] = got[d] /\ signed'[d] = signed[d] /\ op'[d] = op[d]
          /\ beside[d] \subseteq beside'[d]
      BY <1>1 DEF Known, Kept, Left
    <3>2. Seals(d)' /\ ReadsFile(d)' /\ Staged(d)'
      BY <1>1, <3>1 DEF Hand, Seals, ReadsFile, Staged, V!Files
    <3>3. Unsettled(d)'
      BY <1>1, <1>3, <2>4, <3>1 DEF Unsettled, Hand, Staged
    <3>4. Settling(d)'
      BY <2>1 DEF Settling
    <3> QED BY <3>2, <3>3, <3>4 DEF Hand
  <2> QED BY <2>1, <2>3, <2>5, <2>6, <2>7, <2>8 DEF Kept
<1> QED BY <1>2, <1>3 DEF V!discard, V!mayVars

LEMMA KeepsDeleteKey ==
  ASSUME NEW c \in Calls, Known(c), V!DeleteKey(c)
  PROVE  Kept'
<1>1. pc[c] = "delete_key" /\ op[c] = "delete" /\ Left(c)
      /\ UNCHANGED <<vaultFile, staging, disk, keys, item, got, signed>> /\ pc'[c] = "done"
      /\ key' \in {0, key} /\ V!Acknowledges(c)
  BY KnownLeft DEF V!DeleteKey, V!At, V!Ends, V!HelloOnly, Known, InPlace, OpsAt, Rests, OnWindows, Tables
<1> DEFINE now == beside[c] \cup {None}
<1>2. may' = now /\ \A d \in Calls \ {c} : ~Rests(d) => now \subseteq beside'[d]
  BY <1>1 DEF V!Acknowledges, V!Outcome, V!Tells, V!Running, Rests
<1>3. V!Held' \in {None, V!Held}
  <2>1. CASE key' = key
    BY <1>1, <2>1, HeldIs, HeldWillBe DEF Left
  <2>2. CASE key' = 0
    BY <1>1, <2>2, KeyGone DEF Known, Kept, Left
  <2> QED BY <1>1, <2>1, <2>2
<1>4. V!Held' \in may'
  <2>1. V!Held \in now
    BY <1>1 DEF Known, Kept, Hand, Settling
  <2> QED BY <1>2, <1>3, <2>1
<1>5. keys \in Nat /\ key \in Nat /\ key <= keys
  BY DEF Known, KeysTyped, Kept, Sealing
<1>6. Sealing'
  BY <1>1, <1>5 DEF Known, Kept, Sealing, V!Files
<1>7. Fresh'
  BY <1>1 DEF Known, Kept, Fresh, Left
<1>8. Hand(c)'
  BY <1>1 DEF Hand, Seals, Staged, ReadsFile, Unsettled, Settling
<1>9. ASSUME NEW d \in Calls \ {c} PROVE Hand(d)'
  <2>1. Hand(d) /\ pc'[d] = pc[d] /\ got'[d] = got[d] /\ signed'[d] = signed[d] /\ op'[d] = op[d]
        /\ beside[d] \subseteq beside'[d]
    BY <1>1 DEF Known, Kept, Left
  <2>2. Seals(d)'
    <3>1. pc[d] \in {"write", "writing", "rename"} => IsStore(d)
      BY DEF Known, InPlace, OpsAt, Rests, IsStore
    <3>2. pc[d] \in {"write", "writing", "rename"} => None \in beside[d]
      BY <1>1, <3>1 DEF Known, Reckoned
    <3> QED BY <1>1, <2>1, <3>2 DEF Hand, Seals
  <2>3. Staged(d)'
    BY <1>1, <2>1 DEF Hand, Staged, V!Files, V!Torn
  <2>4. ReadsFile(d)'
    <3>1. \A f \in V!Files : f.key # 0
      BY DEF V!Files
    <3> QED BY <1>1, <2>1, <3>1 DEF Hand, ReadsFile, V!Files
  <2>5. Unsettled(d)'
    <3>1. \A e \in Calls : Writing(e)' => Writing(e)
      BY <1>1 DEF Left, Writing, Rests
    <3>2. Writing(c)
      BY <1>1 DEF Left, Writing
    <3>3. SUFFICES ASSUME pc[d] = "writing", got[d] = vaultFile
                   PROVE  /\ V!Torn \in may'
                          /\ \A e \in Calls : Writing(e)' => V!Torn \in beside'[e]
      BY <1>1, <2>1 DEF Unsettled, V!Torn
    <3>4. \A e \in Calls : Writing(e) => V!Torn \in beside[e]
      BY <2>1, <3>3 DEF Hand, Unsettled
    <3>5. V!Torn \in beside[c]
      BY <3>2, <3>4
    <3>6. V!Torn \in may'
      BY <1>2, <3>5
    <3>7. \A e \in Calls : beside[e] \subseteq beside'[e]
      BY <1>1 DEF Left
    <3> QED BY <3>1, <3>4, <3>6, <3>7
  <2>6. Settling(d)'
    BY <1>3, <2>1 DEF Hand, Settling
  <2> QED BY <2>2, <2>3, <2>4, <2>5, <2>6 DEF Hand
<1> QED BY <1>4, <1>6, <1>7, <1>8, <1>9 DEF Kept

\* Off Windows there are no files and no keys.
LEMMA KeepsElsewhere ==
  ASSUME NEW c \in Calls, Known(c), \A d \in Calls : InPlace(d)', LoudElsewhere(c)
  PROVE  Kept'
<1>1. platform # "windows" /\ platform' = platform
      /\ UNCHANGED <<vaultFile, staging, disk, key, keys>>
  BY DEF LoudElsewhere, V!DeleteItem, V!AddItem, V!CreateItem, V!CreatePrompt, V!find, V!ItemDelete,
     V!At, V!SystemOnly, V!KeyringOnly, V!helloVars, Known, InPlace, Rests, OnMac, OnLinux
<1>2. Sealing'
  BY <1>1 DEF Known, Kept, Sealing, V!Files
<1>3. Fresh'
  <2>1. pc[c] \notin {"writing", "rename", "done", "dead"} /\ \A d \in Calls \ {c} : pc'[d] = pc[d]
    BY <1>1 DEF Known, Took, InPlace, Rests, OnWindows
  <2> QED BY <1>1, <2>1 DEF Known, Kept, Fresh
<1>4. \A d \in Calls : Hand(d)'
  <2>1. \A d \in Calls : pc'[d] \notin OnWindows
    BY <1>1 DEF InPlace, Rests, OnWindows
  <2> QED BY <2>1 DEF Hand, Seals, Staged, ReadsFile, Unsettled, Settling, OnWindows
<1>5. item' \in may'
  <2>1. item \in may
    BY <1>1, HeldIs DEF Known, Kept
  <2>2. op[c] \in OpsAt(pc[c]) /\ pc[c] # "done"
    BY DEF Known, Took, InPlace, Rests
  <2> USE DEF V!At, V!MayBe, V!Acknowledges, V!Outcome, V!mayVars, OpsAt
  <2>3. CASE V!DeleteItem(c) \/ V!ItemDelete(c)
    BY <2>1, <2>3 DEF V!DeleteItem, V!ItemDelete
  <2>4. CASE V!AddItem(c) \/ V!CreateItem(c) \/ V!CreatePrompt(c)
    BY <2>1, <2>2, <2>4 DEF V!AddItem, V!CreateItem, V!CreatePrompt
  <2>5. CASE V!find(c)
    <3>1. pc[c] = "find" /\ op[c] \in {"read", "delete"} /\ item' = item
      BY <2>2, <2>5 DEF V!find
    <3>2. CASE item = None /\ op[c] = "delete"
      BY <2>5, <3>1, <3>2 DEF V!find
    <3>3. CASE ~(item = None /\ op[c] = "delete")
      BY <2>1, <2>5, <3>1, <3>3 DEF V!find
    <3> QED BY <3>2, <3>3
  <2> QED BY <2>3, <2>4, <2>5 DEF LoudElsewhere
<1> QED BY <1>1, <1>2, <1>3, <1>4, <1>5, HeldWillBe DEF Kept

\* The other steps of a call.
LEMMA KeepsQuiet ==
  ASSUME NEW c \in Calls, Known(c), V!Steps(c), ~LoudOnWindows(c), ~LoudElsewhere(c)
  PROVE  Kept'
<1>1. Quiet(c)
  BY StepsQuiet DEF Known
<1>2. /\ UNCHANGED <<vaultFile, staging, disk, key, keys, item, may, beside, op, platform>> /\ ~Rests(c)
      /\ \A d \in Calls \ {c} : pc'[d] = pc[d] /\ got'[d] = got[d] /\ signed'[d] = signed[d]
      /\ pc'[c] \notin {"writing", "rename", "delete_key"}
  BY <1>1 DEF Quiet, Known, Took, Rests
<1>3. V!Held' = V!Held
  BY <1>2 DEF V!Held, V!Files
<1>4. Sealing'
  BY <1>2 DEF Known, Kept, Sealing, V!Files
<1>5. Fresh'
  <2>1. pc[c] \in {"writing", "rename"} => pc'[c] = "done"
    BY DEF V!Steps, LoudOnWindows, LoudElsewhere, V!At, V!Ends, V!complete_cancelled, V!Waits,
       V!open_or_create, V!cipher, V!ReadFile, V!OpenToRead, V!is_file, V!OpenToLook, V!Consent,
       V!CopyData, V!ItemExists, V!until_cancelled, V!Claim, V!VerifyStart, V!scan,
       V!scan_cancelled, V!VerifyStop, V!Release, V!Contains, V!GetSecret
  <2> QED BY <1>2, <2>1 DEF Known, Kept, Fresh, Rests
<1>6. \A d \in Calls \ {c} : Hand(d)'
  <2> SUFFICES ASSUME NEW d \in Calls \ {c} PROVE Hand(d)'
    OBVIOUS
  <2>1. \A e \in Calls : Writing(e)' => Writing(e)
    BY <1>2 DEF Writing, Rests
  <2>2. Hand(d)
    BY DEF Known, Kept
  <2>3. Seals(d)' /\ Staged(d)' /\ ReadsFile(d)' /\ Settling(d)'
    BY <1>2, <1>3, <2>2 DEF Hand, Seals, Staged, ReadsFile, Settling, V!Files, V!Torn
  <2>4. Unsettled(d)'
    BY <1>2, <2>1, <2>2 DEF Hand, Unsettled, V!Torn
  <2> QED BY <2>3, <2>4 DEF Hand
<1>7. Hand(c)'
  <2>1. Staged(c)' /\ Unsettled(c)' /\ Settling(c)'
    BY <1>2 DEF Staged, Unsettled, Settling
  <2>2. Seals(c)' /\ ReadsFile(c)'
    BY <1>2, QuietHand DEF Known, Kept, Hand, Reckoned
  <2> QED BY <2>1, <2>2 DEF Hand
<1> QED BY <1>2, <1>3, <1>4, <1>5, <1>6, <1>7 DEF Known, Kept

LEMMA LoudTyped ==
  ASSUME MaxKeys \in Nat, Tables, NEW c \in Calls, CallTyped(c), InPlace(c), FilesTyped, KeysTyped,
         Seals(c), Staged(c), LoudOnWindows(c) \/ LoudElsewhere(c)
  PROVE  FilesTyped' /\ KeysTyped'
<1> USE DEF FilesTyped, KeysTyped, V!At, V!Goes, V!Ends
<1>1. CASE V!RequestCreate(c)
  BY <1>1 DEF V!RequestCreate, V!Files, V!Torn
<1>2. CASE V!WriteStaging(c)
  <2>1. UNCHANGED <<vaultFile, key, keys>>
    BY <1>2 DEF V!WriteStaging
  <2>2. CASE UNCHANGED <<staging, disk>>
    BY <2>1, <2>2 DEF V!Files, V!Torn
  <2>3. CASE \E f \in Calls : staging' = f /\ disk' = [disk EXCEPT ![f] = None]
    <3>1. \A d \in Calls : disk'[d] \in {disk[d], None}
      BY <2>3 DEF Tables
    <3> QED BY <2>1, <2>3, <3>1 DEF V!Files, V!Torn
  <2> QED BY <1>2, <2>2, <2>3 DEF V!WriteStaging
<1>3. CASE V!WriteSealed(c)
  <2>1. UNCHANGED <<vaultFile, staging, key, keys>> /\ pc[c] = "writing"
    BY <1>3 DEF V!WriteSealed
  <2>2. got[c] \in Calls /\ signed[c] \in 1..MaxKeys
    BY <2>1 DEF Seals, Staged
  <2>3. [secret |-> c, key |-> signed[c]] \in V!Files
    BY <2>2 DEF V!Files
  <2>4. \A d \in Calls : disk'[d] \in {disk[d], V!Torn, [secret |-> c, key |-> signed[c]]}
    BY <1>3, <2>2 DEF V!WriteSealed, Tables
  <2> QED BY <2>1, <2>3, <2>4 DEF V!Files, V!Torn
<1>4. CASE V!Rename(c)
  BY <1>4 DEF V!Rename, V!Files, V!Torn
<1>5. CASE V!discard(c)
  BY <1>5 DEF V!discard, V!Files, V!Torn
<1>6. CASE V!DeleteKey(c)
  BY <1>6 DEF V!DeleteKey, V!Files, V!Torn
<1>7. CASE LoudElsewhere(c)
  <2>1. UNCHANGED <<vaultFile, staging, disk, key, keys>>
    BY <1>7 DEF LoudElsewhere, V!DeleteItem, V!AddItem, V!CreateItem, V!CreatePrompt, V!find,
       V!ItemDelete, V!SystemOnly, V!KeyringOnly, V!helloVars
  <2> QED BY <2>1 DEF V!Files, V!Torn
<1> QED BY <1>1, <1>2, <1>3, <1>4, <1>5, <1>6, <1>7 DEF LoudOnWindows

LEMMA VaultSteps ==
  ASSUME V!VaultAssumption, VaultInv, NEW c \in Calls, V!Steps(c)
  PROVE  VaultInv'
<1>1. /\ Apart /\ MaxKeys \in Nat /\ V!TypeOK /\ Tables
      /\ \A d \in Calls : CallTyped(d) /\ InPlace(d) /\ Gated(d) /\ Hand(d)
      /\ FilesTyped /\ KeysTyped /\ RestTyped /\ ReaderHeld /\ Reckoned /\ Kept
  BY VaultParts DEF VaultInv, V!VaultAssumption, Apart, Kept
<1>2. Took(c)
  BY <1>1, StepsTake
<1>3. \A d \in Calls : CallTyped(d)' /\ InPlace(d)' /\ Gated(d)'
  <2>1. CallTyped(c)' /\ InPlace(c)' /\ Gated(c)'
    BY <1>1, StepsCallTyped, StepsInPlace, StepsGated DEF Hand
  <2> QED BY <1>1, <1>2, <2>1, OthersStay
<1>4. Turns(c) /\ FilesTyped' /\ KeysTyped'
  <2>1. CASE LoudOnWindows(c) \/ LoudElsewhere(c)
    BY <1>1, <2>1, LoudTurns, LoudTyped DEF Hand
  <2>2. CASE ~LoudOnWindows(c) /\ ~LoudElsewhere(c)
    <3>1. Quiet(c)
      BY <1>1, <2>2, StepsQuiet
    <3> QED BY <1>1, <3>1 DEF Quiet, Turns, FilesTyped, KeysTyped, V!Files, V!Torn
  <2> QED BY <2>1, <2>2
<1>5. Reckoned'
  BY <1>1, <1>2, <1>4, TurnsReckoned
<1>6. V!TypeOK'
  <2>1. RestTyped'
    BY <1>1, StepsRestTyped
  <2>2. platform' \in Platforms /\ troubles' \in 0..MaxTroubles
    BY <1>1, <1>2 DEF Took, V!TypeOK
  <2> QED BY <1>3, <1>4, <1>5, <2>1, <2>2
      DEF V!TypeOK, CallTyped, FilesTyped, KeysTyped, RestTyped, Reckoned
<1>7. ReaderHeld'
  BY <1>1, <1>2, StepsReader
<1>8. Kept'
  <2>1. Known(c)
    BY <1>1, <1>2, <1>4 DEF Known
  <2>2. CASE LoudOnWindows(c)
    BY <2>1, <2>2, KeepsRequestCreate, KeepsWriteStaging, KeepsWriteSealed, KeepsRename, KeepsDiscard,
       KeepsDeleteKey DEF LoudOnWindows
  <2>3. CASE LoudElsewhere(c)
    BY <1>3, <2>1, <2>3, KeepsElsewhere
  <2>4. CASE ~LoudOnWindows(c) /\ ~LoudElsewhere(c)
    BY <2>1, <2>4, KeepsQuiet
  <2> QED BY <2>2, <2>3, <2>4
<1>9. Tables'
  BY <1>2 DEF Took
<1> QED BY <1>3, <1>5, <1>6, <1>7, <1>8, <1>9 DEF VaultInv

\* Where a call starts.
LEMMA FirstSteps ==
  ASSUME V!VaultAssumption, platform \in Platforms, NEW o \in V!Ops
  PROVE  /\ V!First[o] \in {"open", "read_file", "discard", "is_file", "consent", "delete_item",
                            "copy_data", "exists", "claim", "contains", "find"}
         /\ o \in OpsAt(V!First[o])
         /\ V!First[o] \in OnWindows => platform = "windows"
         /\ V!First[o] \in OnMac => platform = "macos"
         /\ V!First[o] \in OnLinux => platform = "linux"
         /\ V!First[o] \in {"find", "discard"} => o = "delete"
<1>1. CASE platform = "windows"
  BY <1>1 DEF V!First, V!Ops, OpsAt, OnWindows, OnMac, OnLinux, AtReader
<1>2. CASE platform = "macos"
  BY <1>2 DEF V!First, V!Ops, OpsAt, OnWindows, OnMac, OnLinux, AtReader
<1>3. CASE platform = "linux"
  BY <1>3 DEF V!First, V!Ops, OpsAt, OnWindows, OnMac, OnLinux, AtReader
<1>4. platform \in {"windows", "macos", "linux"}
  BY DEF V!VaultAssumption
<1> QED BY <1>1, <1>2, <1>3, <1>4

\* What a call that starts reckons with, and has the others reckon with.
Begins(c, o) ==
  /\ pc[c] = "new" /\ op'[c] = o /\ platform' = platform
  /\ pc'[c] \in {"open", "read_file", "discard", "is_file", "consent", "delete_item",
                 "copy_data", "exists", "claim", "contains", "find"}
  /\ pc'[c] = "discard" => o = "delete"
  /\ \A d \in Calls \ {c} : pc'[d] = pc[d] /\ op'[d] = op[d]
  /\ UNCHANGED <<got, signed, vaultFile, staging, disk, key, keys, item>>
  /\ may' = may \cup V!Puts(c, o)
  /\ o = "read" => beside'[c] = may
  /\ o \in {"store", "delete"} => beside'[c] = V!Underway \cup (V!Puts(c, o) \ {c})
  /\ o \notin {"read", "store", "delete"} => beside'[c] = {}
  /\ \A d \in Calls \ {c} : beside[d] \subseteq beside'[d]
  /\ \A d \in Calls \ {c} : beside'[d] \in {beside[d], beside[d] \cup V!Puts(c, o)}
  /\ \A d \in Calls \ {c} : ~Rests(d) => beside'[d] = beside[d] \cup V!Puts(c, o)

LEMMA PutsThere ==
  ASSUME NEW c \in Calls, NEW o \in V!Ops
  PROVE  /\ V!Puts(c, o) \subseteq V!Contents
         /\ V!Torn \in V!Puts(c, o) => None \in V!Puts(c, o) \/ V!Torn = c
         /\ o = "store" => c \in V!Puts(c, o)
         /\ o # "store" => V!Puts(c, o) = {}
         /\ o = "store" /\ platform = "windows" =>
              \A d \in Calls : IsStore(d) => V!Torn \in V!Puts(c, o) /\ None \in V!Puts(c, o)
BY DEF V!Puts, V!Contents, V!Storing, V!Writers, V!Running, IsStore, Rests

LEMMA UnderwayHas ==
  ASSUME NEW d \in Calls, Writing(d)
  PROVE  V!Outcome(d) \in V!Underway /\ beside[d] \subseteq V!Underway
BY DEF V!Underway, V!Writers, V!Running, Writing, Rests

LEMMA UnderwayIs ==
  ASSUME Reckoned, Apart
  PROVE  V!Underway \subseteq V!Contents /\ (V!Torn \in V!Underway => None \in V!Underway)
<1>1. \A d \in V!Writers : d \in Calls /\ V!Outcome(d) \in Calls \cup {None}
  BY DEF V!Writers, V!Running, V!Outcome
<1> QED BY <1>1 DEF V!Underway, V!Contents, Reckoned, TornOrNone, Apart

LEMMA BeginsReckoned ==
  ASSUME Apart, Reckoned, \A d \in Calls : InPlace(d), NEW c \in Calls, NEW o \in V!Ops, Begins(c, o)
  PROVE  Reckoned'
<1>1. /\ \A d \in Calls \ {c} : (Writing(d)' <=> Writing(d)) /\ (IsStore(d)' <=> IsStore(d))
                                /\ (Rests(d)' <=> Rests(d))
      /\ (IsStore(c)' <=> o = "store") /\ (Writing(c)' <=> o \in {"store", "delete"}) /\ ~Rests(c)'
  BY DEF Begins, Writing, IsStore, Rests
<1>2. c # V!Torn /\ None # V!Torn /\ None # c
  BY DEF Apart
<1>3. \A d \in Calls : pc[d] = "delete_key" => Writing(d) /\ V!Outcome(d) = None
  BY DEF InPlace, OpsAt, Rests, Writing, V!Outcome
<1>4. may' \subseteq V!Contents /\ \A d \in Calls : beside'[d] \subseteq V!Contents
  <2>1. may' \subseteq V!Contents
    BY PutsThere DEF Begins, Reckoned
  <2>2. beside'[c] \subseteq V!Contents
    BY PutsThere, UnderwayIs DEF Begins, Reckoned
  <2>3. \A d \in Calls \ {c} : beside'[d] \subseteq V!Contents
    BY PutsThere DEF Begins, Reckoned
  <2> QED BY <2>1, <2>2, <2>3
<1>5. Rivals'
  <2> SUFFICES ASSUME NEW d \in Calls, NEW e \in Calls, d # e, IsStore(d)', Writing(e)'
               PROVE  /\ d \in beside'[e]
                      /\ platform' = "windows" /\ op'[e] = "store" => V!Torn \in beside'[e]
    BY DEF Rivals, V!Torn
  <2>1. CASE d = c
    <3>1. o = "store" /\ Writing(e) /\ e # c /\ op'[e] = op[e] /\ beside'[e] = beside[e] \cup V!Puts(c, o)
      BY <1>1, <2>1 DEF Begins, Writing
    <3>2. op[e] = "store" => IsStore(e)
      BY <3>1 DEF Writing, IsStore
    <3> QED BY <2>1, <3>1, <3>2, PutsThere DEF Begins
  <2>2. CASE e = c
    <3>1. o \in {"store", "delete"} /\ IsStore(d) /\ beside'[c] = V!Underway \cup (V!Puts(c, o) \ {c})
      BY <1>1, <2>2 DEF Begins
    <3>2. d \in V!Underway
      BY <3>1, UnderwayHas DEF Writing, IsStore, V!Outcome
    <3> QED BY <1>2, <2>2, <3>1, <3>2, PutsThere DEF Begins
  <2>3. CASE d # c /\ e # c
    BY <1>1, <2>3 DEF Begins, Reckoned, Rivals
  <2> QED BY <2>1, <2>2, <2>3
<1>6. TornOrNone'
  <2>1. V!Torn \in may' => None \in may'
    BY <1>2, PutsThere DEF Begins, Reckoned, TornOrNone
  <2>2. V!Torn \in beside'[c] => None \in beside'[c]
    BY <1>2, PutsThere, UnderwayIs DEF Begins, Reckoned, TornOrNone
  <2>3. ASSUME NEW d \in Calls \ {c}, V!Torn \in beside'[d] PROVE None \in beside'[d]
    <3>1. CASE beside'[d] = beside[d]
      BY <2>3, <3>1 DEF Reckoned, TornOrNone
    <3>2. CASE beside'[d] = beside[d] \cup V!Puts(c, o)
      BY <1>2, <2>3, <3>2, PutsThere DEF Reckoned, TornOrNone
    <3> QED BY <3>1, <3>2 DEF Begins
  <2> QED BY <2>1, <2>2, <2>3 DEF TornOrNone, V!Torn
<1>7. \A d \in Calls : IsStore(d)' => d \in may'
  BY <1>1, PutsThere DEF Begins, Reckoned
<1>8. ASSUME NEW d \in Calls, ~Rests(d)', op'[d] = "read" PROVE may' \subseteq beside'[d]
  <2>1. CASE d = c
    BY <1>8, <2>1, PutsThere DEF Begins
  <2>2. CASE d # c
    BY <1>1, <1>8, <2>2 DEF Begins, Reckoned
  <2> QED BY <2>1, <2>2
<1>9. ASSUME NEW d \in Calls, NEW e \in Calls, d # e, IsStore(d)', pc'[e] = "delete_key"
      PROVE  None \in beside'[d]
  <2>1. e # c /\ pc[e] = "delete_key"
    BY <1>9 DEF Begins
  <2>2. CASE d = c
    BY <1>1, <1>3, <1>9, <2>1, <2>2, UnderwayHas DEF Begins
  <2>3. CASE d # c
    BY <1>1, <1>9, <2>1, <2>3 DEF Begins, Reckoned
  <2> QED BY <2>2, <2>3
<1> QED BY <1>4, <1>5, <1>6, <1>7, <1>8, <1>9 DEF Reckoned, V!Contents, V!Torn

LEMMA BeginsKept ==
  ASSUME Apart, Kept, Reckoned, \A d \in Calls : InPlace(d), NEW c \in Calls, NEW o \in V!Ops, Begins(c, o)
  PROVE  Kept'
<1>1. V!Held' = V!Held
  BY DEF Begins, V!Held, V!Files
<1>2. Sealing'
  BY DEF Begins, Kept, Sealing, V!Files
<1>3. Fresh'
  BY DEF Begins, Kept, Fresh
<1>4. Hand(c)'
  BY DEF Begins, Hand, Seals, Staged, ReadsFile, Unsettled, Settling
<1>5. ASSUME NEW d \in Calls \ {c} PROVE Hand(d)'
  <2>1. Hand(d) /\ pc'[d] = pc[d] /\ got'[d] = got[d] /\ signed'[d] = signed[d] /\ op'[d] = op[d]
        /\ beside[d] \subseteq beside'[d]
    BY DEF Begins, Kept
  <2>2. Seals(d)' /\ Staged(d)' /\ ReadsFile(d)' /\ Settling(d)'
    BY <1>1, <2>1 DEF Begins, Hand, Seals, Staged, ReadsFile, Settling, V!Files, V!Torn
  <2>3. Unsettled(d)'
    <3> SUFFICES ASSUME pc[d] = "writing", got[d] = vaultFile
                 PROVE  /\ V!Torn \in may'
                        /\ \A e \in Calls : Writing(e)' => V!Torn \in beside'[e]
      BY <2>1 DEF Begins, Unsettled, V!Torn
    <3>1. V!Torn \in may /\ \A e \in Calls : Writing(e) => V!Torn \in beside[e]
      BY <2>1 DEF Hand, Unsettled
    <3>2. Writing(d)
      BY DEF InPlace, OpsAt, Rests, Writing
    <3>3. Writing(c)' => o \in {"store", "delete"}
      BY DEF Begins, Writing
    <3>4. \A e \in Calls \ {c} : Writing(e)' => Writing(e)
      BY DEF Begins, Writing, Rests
    <3> QED BY <3>1, <3>2, <3>3, <3>4, UnderwayHas DEF Begins
  <2> QED BY <2>2, <2>3 DEF Hand
<1>6. V!Held' \in may'
  BY <1>1 DEF Begins, Kept
<1> QED BY <1>2, <1>3, <1>4, <1>5, <1>6 DEF Kept

LEMMA VaultStarts ==
  ASSUME V!VaultAssumption, VaultInv, NEW c \in Calls, V!Start(c)
  PROVE  VaultInv'
<1>1. PICK o \in V!Ops : V!Starts(c, o, V!First[o])
  BY DEF V!Start
<1>2. /\ Apart /\ Tables /\ V!TypeOK /\ ReaderHeld /\ Reckoned /\ Kept
      /\ platform \in Platforms
      /\ \A d \in Calls : CallTyped(d) /\ InPlace(d) /\ Gated(d)
  BY VaultParts DEF VaultInv, V!VaultAssumption, Apart
<1> DEFINE first == V!First[o]
<1>3. /\ first \in {"open", "read_file", "discard", "is_file", "consent", "delete_item",
                    "copy_data", "exists", "claim", "contains", "find"}
      /\ o \in OpsAt(first)
      /\ first \in OnWindows => platform = "windows"
      /\ first \in OnMac => platform = "macos"
      /\ first \in OnLinux => platform = "linux"
      /\ first \in {"find", "discard"} => o = "delete"
  BY <1>2, FirstSteps
<1>4. /\ pc[c] = "new" /\ op' = [op EXCEPT ![c] = o] /\ pc' = [pc EXCEPT ![c] = first]
      /\ answer' = answer
      /\ UNCHANGED <<platform, got, signed, cancelled, matched, vaultFile, staging, disk, key, keys, dialogs,
                     item, claimed, scanning, troubles>>
      /\ may' = may \cup V!Puts(c, o)
  BY <1>1 DEF V!Starts, V!Goes, V!helloVars, V!readerVars
<1> HIDE DEF first
<1>5. /\ op'[c] = o /\ pc'[c] = first
      /\ \A d \in Calls \ {c} : pc'[d] = pc[d] /\ op'[d] = op[d]
  BY <1>2, <1>4 DEF Tables
<1>6. answer[c] = None
  BY <1>2, <1>4 DEF InPlace
<1>7. /\ DOMAIN beside' = Calls
      /\ o = "read" => beside'[c] = may
      /\ o \in {"store", "delete"} => beside'[c] = V!Underway \cup (V!Puts(c, o) \ {c})
      /\ o \notin {"read", "store", "delete"} => beside'[c] = {}
      /\ \A d \in Calls \ {c} :
           beside'[d] = IF d \in V!Running THEN beside[d] \cup V!Puts(c, o) ELSE beside[d]
  <2>1. beside' = [d \in Calls |->
                     IF d = c
                     THEN CASE o = "read" -> may
                            [] o \in {"store", "delete"} -> V!Underway \cup (V!Puts(c, o) \ {c})
                            [] OTHER -> {}
                     ELSE IF d \in V!Running THEN beside[d] \cup V!Puts(c, o) ELSE beside[d]]
    BY <1>1 DEF V!Starts
  <2> QED BY <2>1
<1>8. Begins(c, o)
  <2>1. \A d \in Calls : d \in V!Running <=> ~Rests(d)
    BY DEF V!Running, Rests
  <2> QED BY <1>3, <1>4, <1>5, <1>7, <2>1 DEF Begins
<1>9. Reckoned' /\ Kept'
  BY <1>2, <1>8, BeginsReckoned, BeginsKept
<1>10. V!TypeOK'
  <2>1. may' \subseteq V!Contents /\ \A d \in Calls : beside'[d] \subseteq V!Contents
    BY <1>9 DEF Reckoned, V!Contents, V!Torn
  <2>2. \A d \in Calls : op'[d] \in V!Ops \cup {None}
    BY <1>2, <1>5 DEF V!TypeOK
  <2> QED BY <1>2, <1>4, <2>1, <2>2 DEF V!TypeOK, V!Files, V!Torn, V!Contents
<1>11. \A d \in Calls : InPlace(d)' /\ Gated(d)'
  <2>1. InPlace(c)'
    BY <1>3, <1>4, <1>5, <1>6 DEF InPlace, Rests, OnWindows, OnMac, OnLinux, AtReader
  <2>2. Gated(c)'
    BY <1>2, <1>3, <1>4, <1>5, <1>6 DEF Gated, Apart, V!Answers
  <2>3. ASSUME NEW d \in Calls \ {c} PROVE InPlace(d)' /\ Gated(d)'
    <3>1. pc'[d] = pc[d] /\ op'[d] = op[d]
      BY <1>5
    <3>2. InPlace(d) /\ Gated(d)
      BY <1>2
    <3> QED BY <1>4, <3>1, <3>2 DEF InPlace, Gated, Rests
  <2> QED BY <2>1, <2>2, <2>3
<1>12. ReaderHeld'
  BY <1>2, <1>3, <1>4, <1>5 DEF ReaderHeld, AtReader, Apart
<1>13. Tables'
  BY <1>2, <1>4, <1>7 DEF Tables
<1> QED BY <1>9, <1>10, <1>11, <1>12, <1>13 DEF VaultInv

\* The invariant is not about who was cancelled.
LEMMA SameVault ==
  ASSUME VaultInv,
         UNCHANGED <<platform, op, pc, answer, got, signed, matched, vaultFile, staging, disk, key, keys,
                     dialogs, item, claimed, scanning, troubles, may, beside>>
  PROVE  VaultInv'
<1>1. V!TypeOK' /\ Tables' /\ ReaderHeld'
  BY DEF VaultInv, V!TypeOK, Tables, ReaderHeld, V!Files, V!Torn, V!Contents
<1>2. \A d \in Calls : InPlace(d)' /\ Gated(d)'
  BY DEF VaultInv, InPlace, Gated, Rests
<1>3. Reckoned'
  <2>1. Rivals' /\ TornOrNone'
    BY DEF VaultInv, Reckoned, Rivals, TornOrNone, IsStore, Writing, Rests, V!Torn
  <2> QED BY <2>1 DEF VaultInv, Reckoned, IsStore, Rests, V!Contents, V!Torn
<1>4. Kept'
  <2>1. V!Held' = V!Held
    BY DEF V!Held, V!Files
  <2>2. Sealing' /\ Fresh'
    BY DEF VaultInv, Kept, Sealing, Fresh, V!Files
  <2>3. ASSUME NEW d \in Calls PROVE Hand(d)'
    <3>1. Hand(d)
      BY DEF VaultInv, Kept
    <3>2. Seals(d)' /\ Staged(d)' /\ ReadsFile(d)' /\ Settling(d)'
      BY <2>1, <3>1 DEF Hand, Seals, Staged, ReadsFile, Settling, V!Files, V!Torn
    <3>3. Unsettled(d)'
      BY <3>1 DEF Hand, Unsettled, Writing, Rests, V!Torn
    <3> QED BY <3>2, <3>3 DEF Hand
  <2> QED BY <2>1, <2>2, <2>3 DEF VaultInv, Kept
<1> QED BY <1>1, <1>2, <1>3, <1>4 DEF VaultInv

LEMMA VaultCancels ==
  ASSUME V!VaultAssumption, VaultInv, NEW c \in Calls, V!Cancel(c)
  PROVE  VaultInv'
<1>1. UNCHANGED <<platform, op, pc, answer, got, signed, matched, vaultFile, staging, disk, key, keys,
                  dialogs, item, claimed, scanning, troubles, may, beside>>
  BY DEF V!Cancel, V!helloVars, V!readerVars, V!mayVars
<1> QED BY <1>1, SameVault

\* A key that is replaced, or lost: every call that runs reckons with nothing.
LEMMA KeyMoves ==
  ASSUME V!VaultAssumption, VaultInv,
         UNCHANGED <<platform, op, pc, answer, got, signed, matched, vaultFile, staging, disk,
                     item, claimed, scanning>>,
         keys' \in {keys, keys + 1}, key' = 0 \/ (key' = keys + 1 /\ keys' = keys + 1),
         V!MayBe(V!Running, {None}),
         troubles' \in 0..MaxTroubles, key' \in 0..MaxKeys, keys' \in 0..MaxKeys, dialogs' \subseteq dialogs
  PROVE  VaultInv'
<1>1. /\ Apart /\ V!TypeOK /\ Tables /\ Reckoned /\ Kept /\ MaxKeys \in Nat /\ KeysTyped /\ FilesTyped
      /\ \A d \in Calls : InPlace(d) /\ Gated(d) /\ Hand(d) /\ CallTyped(d)
  BY VaultParts DEF VaultInv, V!VaultAssumption, Apart, Kept
<1>2. key \in Nat /\ keys \in Nat /\ key <= keys
  BY <1>1 DEF KeysTyped, Kept, Sealing
<1>3. \A d \in Calls : Rests(d)' <=> Rests(d)
  BY DEF Rests
<1>4. /\ may' = may \cup {None} /\ DOMAIN beside' = Calls
      /\ \A d \in Calls : beside'[d] \in {beside[d], beside[d] \cup {None}}
      /\ \A d \in Calls : ~Rests(d) => beside'[d] = beside[d] \cup {None}
  <2>1. \A d \in Calls : d \in V!Running <=> ~Rests(d)
    BY DEF V!Running, Rests
  <2> QED BY <2>1 DEF V!MayBe, V!Tells
<1>5. Tables' /\ ReaderHeld' /\ \A d \in Calls : InPlace(d)' /\ Gated(d)'
  BY <1>4 DEF VaultInv, Tables, ReaderHeld, InPlace, Gated, Rests
<1>6. Reckoned'
  <2>1. may' \subseteq V!Contents /\ \A d \in Calls : beside'[d] \subseteq V!Contents
    BY <1>1, <1>4 DEF Reckoned, V!Contents
  <2>2. Rivals'
    BY <1>1, <1>4 DEF Reckoned, Rivals, IsStore, Writing, Rests, V!Torn
  <2>3. TornOrNone'
    BY <1>1, <1>4 DEF Reckoned, TornOrNone, V!Torn
  <2>4. \A d \in Calls : IsStore(d)' => d \in may' /\ None \in beside'[d]
    BY <1>1, <1>4 DEF Reckoned, IsStore, Rests
  <2>5. \A d \in Calls : ~Rests(d)' /\ op'[d] = "read" => may' \subseteq beside'[d]
    BY <1>1, <1>3, <1>4 DEF Reckoned
  <2> QED BY <2>1, <2>2, <2>3, <2>4, <2>5 DEF Reckoned, V!Contents, V!Torn
<1>7. V!TypeOK'
  BY <1>1, <1>4, <1>6 DEF V!TypeOK, V!Files, V!Torn, V!Contents, Reckoned
<1>8. Sealing' /\ Fresh'
  <2>1. \A d \in Calls : disk[d] \in V!Files => disk[d].key \in Nat /\ disk[d].key <= keys
    BY <1>1 DEF Kept, Sealing, V!Files
  <2>2. \A d \in Calls : disk[d] \in V!Files => disk[d].key <= keys'
    BY <1>2, <2>1
  <2>3. key' <= keys'
    BY <1>2
  <2>4. Sealing'
    BY <2>2, <2>3 DEF Sealing, V!Files
  <2> QED BY <1>1, <2>4 DEF Kept, Fresh
<1>9. V!Held' \in {None, V!Held}
  <2>1. CASE platform = "windows"
    BY <1>1, <2>1, KeyGone DEF Kept
  <2>2. CASE platform # "windows"
    BY <2>2, HeldIs, HeldWillBe
  <2> QED BY <2>1, <2>2
<1>10. ASSUME NEW d \in Calls PROVE Hand(d)'
  <2>1. Hand(d) /\ beside[d] \subseteq beside'[d]
    BY <1>1, <1>4
  <2>2. Seals(d)'
    <3>1. \A n \in 1..keys : n \in 1..keys'
      BY <1>2
    <3>2. pc[d] \in {"write", "writing", "rename"} => None \in beside'[d]
      BY <1>4 DEF Rests
    <3> QED BY <2>1, <3>1, <3>2 DEF Hand, Seals
  <2>3. Staged(d)'
    BY <2>1 DEF Hand, Staged, V!Files, V!Torn
  <2>4. ReadsFile(d)'
    <3>1. \A f \in V!Files : f.key \in Nat /\ f.key # 0
      BY <1>1 DEF V!Files
    <3>2. \A f \in V!Files : f.key <= keys => f.key <= keys' /\ f.key # key'
      BY <1>2, <3>1
    <3> QED BY <2>1, <3>2 DEF Hand, ReadsFile, V!Files, V!Torn
  <2>5. Unsettled(d)'
    BY <1>4, <2>1 DEF Hand, Unsettled, Writing, Rests, V!Torn
  <2>6. Settling(d)'
    BY <1>9, <2>1 DEF Hand, Settling
  <2> QED BY <2>2, <2>3, <2>4, <2>5, <2>6 DEF Hand
<1>11. V!Held' \in may'
  BY <1>1, <1>4, <1>9 DEF Kept
<1> QED BY <1>5, <1>6, <1>7, <1>8, <1>10, <1>11 DEF VaultInv, Kept

LEMMA VaultRestarts ==
  ASSUME V!VaultAssumption, VaultInv, V!Restart
  PROVE  VaultInv'
<1>1. /\ pc' = [c \in Calls |-> IF c \in V!Running THEN "dead" ELSE pc[c]]
      /\ claimed' = None /\ scanning' = FALSE /\ dialogs' = {}
      /\ troubles' = troubles + 1 /\ troubles < MaxTroubles
      /\ UNCHANGED <<platform, op, answer, got, signed, matched, vaultFile, staging, disk, key, keys,
                     item, may, beside>>
  BY DEF V!Restart, V!mayVars
<1>2. Apart /\ V!TypeOK /\ MaxTroubles \in Nat
  BY DEF VaultInv, V!VaultAssumption, Apart
<1>3. \A c \in Calls : Rests(c)' /\ (pc'[c] = pc[c] \/ (pc'[c] = "dead" /\ ~Rests(c)))
  <2> SUFFICES ASSUME NEW c \in Calls PROVE Rests(c)' /\ (pc'[c] = pc[c] \/ (pc'[c] = "dead" /\ ~Rests(c)))
    OBVIOUS
  <2>1. pc'[c] = IF c \in V!Running THEN "dead" ELSE pc[c]
    BY <1>1
  <2>2. c \in V!Running <=> ~Rests(c)
    BY DEF V!Running, Rests
  <2> QED BY <2>1, <2>2 DEF Rests
<1>4. V!TypeOK'
  <2>1. troubles' \in 0..MaxTroubles
    BY <1>1, <1>2 DEF V!TypeOK
  <2> QED BY <1>1, <1>2, <2>1 DEF V!TypeOK, V!Files, V!Torn, V!Contents
<1>5. Tables' /\ Sealing' /\ V!Held' = V!Held
  BY <1>1 DEF VaultInv, Tables, Kept, Sealing, V!Held, V!Files
<1>6. Fresh'
  BY <1>1, <1>3 DEF VaultInv, Kept, Fresh
<1>7. \A c \in Calls : InPlace(c)' /\ pc'[c] \in {"new", "done", "dead"}
  BY <1>1, <1>3 DEF VaultInv, InPlace, Rests
<1>8. \A c \in Calls : Gated(c)' /\ Hand(c)'
  BY <1>1, <1>7 DEF VaultInv, Gated, Hand, Seals, Staged, ReadsFile, Unsettled, Settling
<1>9. Reckoned'
  <2>1. \A c \in Calls : ~IsStore(c)'
    BY <1>3 DEF IsStore
  <2>2. Rivals'
    BY <2>1 DEF Rivals
  <2> QED BY <1>1, <1>3, <2>1, <2>2 DEF VaultInv, Reckoned, TornOrNone, V!Contents, V!Torn
<1>10. ReaderHeld'
  BY <1>1, <1>2, <1>3 DEF ReaderHeld, AtReader, Rests, Apart
<1> QED BY <1>1, <1>4, <1>5, <1>6, <1>7, <1>8, <1>9, <1>10 DEF VaultInv, Kept

LEMMA VaultBegins ==
  ASSUME V!VaultAssumption, V!Init
  PROVE  VaultInv
<1>1. Apart /\ MaxKeys \in Nat /\ MaxTroubles \in Nat
  BY DEF V!VaultAssumption, Apart
<1>2. V!TypeOK /\ Tables
  <2>1. 0 \in 0..MaxKeys /\ 0 \in 0..MaxTroubles
    BY <1>1
  <2> QED BY <2>1 DEF V!Init, V!TypeOK, Tables, V!Contents
<1>3. \A c \in Calls : InPlace(c) /\ Gated(c) /\ Hand(c) /\ Rests(c)
  BY <1>1 DEF V!Init, InPlace, Gated, Hand, Seals, Staged, ReadsFile, Unsettled, Settling, Rests,
     Apart, V!Answers
<1>4. ReaderHeld /\ Sealing /\ Fresh
  BY <1>1 DEF V!Init, ReaderHeld, AtReader, Sealing, Fresh, Apart
<1>5. V!Held \in may
  BY <1>1 DEF V!Init, V!Held
<1>6. Reckoned
  BY <1>1, <1>3 DEF V!Init, Reckoned, Rivals, TornOrNone, IsStore, V!Contents, Apart
<1> QED BY <1>2, <1>3, <1>4, <1>5, <1>6 DEF VaultInv, Kept

LEMMA VaultNext ==
  ASSUME V!VaultAssumption, VaultInv, V!Next
  PROVE  VaultInv'
<1>1. MaxKeys \in Nat /\ MaxTroubles \in Nat /\ troubles \in 0..MaxTroubles /\ KeysTyped
  BY VaultParts DEF VaultInv, V!VaultAssumption
<1>2. ASSUME NEW c \in Calls, V!StaleDialog(c) PROVE VaultInv'
  <2>1. UNCHANGED <<platform, op, pc, answer, got, signed, matched, vaultFile, staging, disk,
                    item, claimed, scanning, troubles>>
        /\ key' = keys + 1 /\ keys' = keys + 1 /\ V!MayBe(V!Running, {None})
        /\ dialogs' \subseteq dialogs /\ keys < MaxKeys
    BY <1>2 DEF V!StaleDialog, V!callVars, V!HelloOnly, V!readerVars
  <2>2. keys' \in 0..MaxKeys /\ key' \in 0..MaxKeys
    BY <1>1, <2>1 DEF KeysTyped
  <2> QED BY <1>1, <2>1, <2>2, KeyMoves
<1>3. ASSUME V!ResetHello PROVE VaultInv'
  <2>1. UNCHANGED <<platform, op, pc, answer, got, signed, matched, vaultFile, staging, disk,
                    item, claimed, scanning, keys, dialogs>>
        /\ key' = 0 /\ V!MayBe(V!Running, {None})
        /\ troubles < MaxTroubles /\ troubles' = troubles + 1
    BY <1>3 DEF V!ResetHello, V!callVars, V!readerVars
  <2>2. troubles' \in 0..MaxTroubles
    BY <1>1, <2>1
  <2>3. keys' \in 0..MaxKeys /\ key' \in 0..MaxKeys
    BY <1>1, <2>1 DEF KeysTyped
  <2> QED BY <2>1, <2>2, <2>3, KeyMoves
<1> QED BY <1>2, <1>3, VaultStarts, VaultCancels, VaultSteps, VaultRestarts DEF V!Next

LEMMA VaultIdles ==
  ASSUME VaultInv, UNCHANGED vaultVars
  PROVE  VaultInv'
BY SameVault DEF vaultVars

\* The vault's invariant, for any number of calls and keys.
THEOREM VaultInvariant == BothSpec => []VaultInv
<1>1. BothInit => VaultInv
  BY StoresAssumption, VaultBegins DEF BothInit
<1>2. VaultInv /\ [BothNext]_bothVars => VaultInv'
  BY StoresAssumption, VaultNext, VaultIdles DEF BothNext, bothVars
<1> QED BY <1>1, <1>2, PTL DEF BothSpec

\* The vault holds what was acknowledged last, or what a call that wrote since,
\* or beside it, left.
THEOREM VaultAlwaysKeeps == BothSpec => []VaultKeeps
<1>1. VaultInv => VaultKeeps
  BY DEF VaultInv, Kept, VaultKeeps, V!VaultKeeps
<1> QED BY <1>1, VaultInvariant, PTL

\* Whoever holds a secret was verified, and the reader is given back.
THEOREM VaultIsVerified == BothSpec => []VerifiedOnly
<1>1. VaultInv => VerifiedOnly
  <2> SUFFICES ASSUME VaultInv PROVE VerifiedOnly
    OBVIOUS
  <2>1. V!GateHolds
    BY DEF VaultInv, Gated, V!GateHolds
  <2>2. V!ReaderReturned
    BY DEF VaultInv, ReaderHeld, AtReader, V!ReaderReturned, V!Running
  <2> QED BY <2>1, <2>2 DEF VerifiedOnly, V!VerifiedOnly
<1> QED BY <1>1, VaultInvariant, PTL

\* What a read answers with the vault may have held since it began.
TrueOf(c) ==
  /\ answer'[c] = "ok" => got'[c] \in Calls \cap beside[c]
  /\ answer'[c] = "not_found" => None \in beside[c]

LEMMA StepsReadTrue ==
  ASSUME Apart, MaxKeys \in Nat, KeysTyped, RestTyped, Tables, NEW c \in Calls, InPlace(c), ReadsFile(c),
         Seals(c), V!Held \in may, may \subseteq beside[c],
         op[c] = "read", answer[c] = None, V!Steps(c)
  PROVE  TrueOf(c)
<1> USE DEF Tables, V!At, V!Goes, V!Ends, TrueOf, V!Answers, Apart
<1>1. CASE V!complete_cancelled(c)
  BY <1>1 DEF V!complete_cancelled, V!Waits
<1>2. CASE V!open_or_create(c)
  BY <1>2 DEF V!open_or_create, InPlace, OpsAt, Rests
<1>3. CASE V!RequestCreate(c)
  BY <1>3 DEF V!RequestCreate, InPlace, OpsAt, Rests
<1>4. CASE V!cipher(c)
  <2>1. answer'[c] = "ok" => /\ got'[c] = got[c].secret /\ got[c].key = key
                             /\ pc[c] = "sign" /\ platform = "windows"
    BY <1>4, Ciphers DEF Apart, V!Answers, InPlace, OpsAt, Rests, OnWindows
  <2>2. answer'[c] # "not_found"
    BY <1>4, Ciphers DEF Apart, V!Answers
  <2>3. ASSUME answer'[c] = "ok" PROVE got'[c] \in Calls \cap beside[c]
    <3>1. signed[c] = key /\ signed[c] \in 1..keys
      BY <1>4, <2>1, <2>3, Ciphers DEF Seals, Apart, V!Answers
    <3>2. key # 0
      BY <3>1 DEF KeysTyped
    <3>3. got[c] \in V!Files
      BY <2>1, <2>3, <3>2 DEF ReadsFile, V!Torn
    <3>4. got[c].secret \in Calls
      BY <3>3 DEF V!Files
    <3> QED BY <2>1, <2>3, <3>3, <3>4 DEF ReadsFile
  <2> QED BY <2>2, <2>3
<1>5. CASE V!WriteStaging(c)
  BY <1>5 DEF V!WriteStaging, InPlace, OpsAt, Rests
<1>6. CASE V!WriteSealed(c)
  BY <1>6 DEF V!WriteSealed, InPlace, OpsAt, Rests
<1>7. CASE V!Rename(c)
  BY <1>7 DEF V!Rename, InPlace, OpsAt, Rests
<1>8. CASE V!ReadFile(c)
  <2>1. answer'[c] # "ok" /\ (answer'[c] = "not_found" => vaultFile = None) /\ platform = "windows"
    BY <1>8, ReadsIn DEF Apart, V!Answers, InPlace, OpsAt, Rests, OnWindows
  <2> QED BY <2>1, HeldIs
<1>9. CASE V!OpenToRead(c)
  BY <1>9 DEF V!OpenToRead, InPlace, OpsAt, Rests
<1>10. CASE V!discard(c)
  BY <1>10 DEF V!discard, InPlace, OpsAt, Rests
<1>11. CASE V!DeleteKey(c)
  BY <1>11 DEF V!DeleteKey, InPlace, OpsAt, Rests
<1>12. CASE V!is_file(c)
  BY <1>12 DEF V!is_file, InPlace, OpsAt, Rests
<1>13. CASE V!OpenToLook(c)
  BY <1>13 DEF V!OpenToLook, InPlace, OpsAt, Rests
<1>14. CASE V!Consent(c)
  BY <1>14 DEF V!Consent, InPlace, OpsAt, Rests
<1>15. CASE V!DeleteItem(c)
  BY <1>15 DEF V!DeleteItem, InPlace, OpsAt, Rests
<1>16. CASE V!AddItem(c)
  BY <1>16 DEF V!AddItem, InPlace, OpsAt, Rests
<1>17. CASE V!CopyData(c)
  <2>1. V!Held = item
    BY <1>17, HeldIs DEF V!CopyData, InPlace, OnMac, Rests
  <2> QED BY <1>17, <2>1 DEF V!CopyData, RestTyped, Apart, V!Answers
<1>18. CASE V!ItemExists(c)
  BY <1>18 DEF V!ItemExists, InPlace, OpsAt, Rests
<1>19. CASE V!until_cancelled(c)
  BY <1>19 DEF V!until_cancelled, InPlace, OpsAt, Rests
<1>20. CASE V!Claim(c)
  BY <1>20 DEF V!Claim, InPlace, OpsAt, Rests
<1>21. CASE V!VerifyStart(c)
  BY <1>21 DEF V!VerifyStart, InPlace, OpsAt, Rests
<1>22. CASE V!scan(c)
  BY <1>22 DEF V!scan, InPlace, OpsAt, Rests
<1>23. CASE V!scan_cancelled(c)
  BY <1>23 DEF V!scan_cancelled, InPlace, OpsAt, Rests
<1>24. CASE V!VerifyStop(c)
  BY <1>24 DEF V!VerifyStop, InPlace, OpsAt, Rests
<1>25. CASE V!Release(c)
  BY <1>25, Releases
<1>26. CASE V!Contains(c)
  <2>1. V!Held = item
    BY <1>26, HeldIs DEF V!Contains, InPlace, OnLinux, Rests
  <2> QED BY <1>26, <2>1 DEF V!Contains, Apart, V!Answers
<1>27. CASE V!CreateItem(c)
  BY <1>27 DEF V!CreateItem, InPlace, OpsAt, Rests
<1>28. CASE V!CreatePrompt(c)
  BY <1>28 DEF V!CreatePrompt, InPlace, OpsAt, Rests
<1>29. CASE V!find(c)
  <2>1. V!Held = item
    BY <1>29, HeldIs DEF V!find, InPlace, OnLinux, Rests
  <2> QED BY <1>29, <2>1 DEF V!find, Apart, V!Answers
<1>30. CASE V!GetSecret(c)
  <2>1. V!Held = item
    BY <1>30, HeldIs DEF V!GetSecret, InPlace, OnLinux, Rests
  <2> QED BY <1>30, <2>1 DEF V!GetSecret, RestTyped, Apart, V!Answers
<1>31. CASE V!ItemDelete(c)
  BY <1>31 DEF V!ItemDelete, InPlace, OpsAt, Rests
<1> QED
  BY <1>1, <1>2, <1>3, <1>4, <1>5, <1>6, <1>7, <1>8, <1>9, <1>10, <1>11, <1>12, <1>13, <1>14,
     <1>15, <1>16, <1>17, <1>18, <1>19, <1>20, <1>21, <1>22, <1>23, <1>24, <1>25, <1>26, <1>27,
     <1>28, <1>29, <1>30, <1>31
  DEF V!Steps

\* So it is of every read, for any number of calls.
THEOREM VaultReadsTrue == BothSpec => ReadsAreTrue
<1> DEFINE True == \A c \in Calls :
                      (op[c] = "read" /\ answer[c] = None) =>
                        /\ answer'[c] = "ok" => got'[c] \in Calls \cap beside[c]
                        /\ answer'[c] = "not_found" => None \in beside[c]
<1>1. ASSUME VaultInv, V!Next, NEW c \in Calls, op[c] = "read", answer[c] = None
      PROVE  TrueOf(c)
  <2>1. /\ Apart /\ Tables /\ V!Held \in may /\ MaxKeys \in Nat /\ KeysTyped /\ RestTyped /\ Reckoned
        /\ \A d \in Calls : InPlace(d) /\ ReadsFile(d) /\ Seals(d)
    BY <1>1, StoresAssumption, VaultParts DEF VaultInv, V!VaultAssumption, Apart, Kept, Hand
  <2>2. CASE answer'[c] = None
    BY <2>1, <2>2 DEF TrueOf, Apart, V!Answers
  <2>3. CASE answer' = answer
    BY <1>1, <2>2, <2>3
  <2>4. ASSUME NEW d \in Calls, V!Steps(d) PROVE TrueOf(c)
    <3>1. CASE d = c
      <4>1. Took(c)
        BY <2>1, <2>4, <3>1, StepsTake
      <4>2. may \subseteq beside[c]
        BY <1>1, <2>1, <4>1 DEF Reckoned, Took, Rests
      <4> QED BY <1>1, <2>1, <2>4, <3>1, <4>2, StepsReadTrue
    <3>2. CASE d # c
      <4>1. Took(d)
        BY <2>1, <2>4, StepsTake
      <4> QED BY <1>1, <2>2, <3>2, <4>1 DEF Took
    <3> QED BY <3>1, <3>2
  <2>5. ASSUME NEW d \in Calls, V!Start(d) \/ V!Cancel(d) \/ V!StaleDialog(d) PROVE answer' = answer
    BY <2>5 DEF V!Start, V!Starts, V!Goes, V!Cancel, V!StaleDialog, V!callVars
  <2>6. V!Restart \/ V!ResetHello => answer' = answer
    BY DEF V!Restart, V!ResetHello, V!callVars
  <2> QED BY <1>1, <2>3, <2>4, <2>5, <2>6 DEF V!Next
<1>2. VaultInv /\ [BothNext]_bothVars => [True]_(V!vars)
  <2> SUFFICES ASSUME VaultInv, [BothNext]_bothVars PROVE [True]_(V!vars)
    OBVIOUS
  <2>1. UNCHANGED vaultVars => UNCHANGED V!vars
    BY DEF vaultVars, V!vars, V!callVars, V!helloVars, V!readerVars, V!mayVars
  <2>2. V!Next => True
    BY <1>1 DEF TrueOf
  <2> HIDE DEF True
  <2> QED BY <2>1, <2>2 DEF BothNext, bothVars
<1> HIDE DEF True
<1>3. [][True]_(V!vars) => ReadsAreTrue
  BY PTL DEF True, ReadsAreTrue, V!ReadsAreTrue
<1> QED BY <1>2, <1>3, VaultInvariant, PTL DEF BothSpec
-----------------------------------------------------------------------------
(* The handoff of received shares.                                         *)

On(t, e) == hand[t].step # "none" /\ hand[t].entry = e
Moving(t, e) == hand[t].step \in {"move", "publish"} /\ hand[t].entry = e
Removing(t, e) == hand[t].step = "remove" /\ hand[t].entry = e

One(holds) == IF holds THEN 1 ELSE 0
Moves(e) == One(Moving("app", e)) + One(Moving("notify", e))
Removals(e) == One(Removing("app", e)) + One(Removing("notify", e))

\* What is listed or worked on was committed, and what is deleted was published.
Reached(e) ==
  /\ \A t \in H!Threads : e \in todo[t] \/ On(t, e) => dir[e] \in {"committed", "gone"}
  /\ \A t \in H!Threads : Removing(t, e) => published[e] > 0
  /\ dir[e] = "gone" => published[e] > 0

\* Each life of the app publishes an entry once per thread, and no more once it is gone.
Counted(e) ==
  /\ dir[e] # "gone" => published[e] <= 2 * crashes + Removals(e)
  /\ dir[e] = "gone" => published[e] + Moves(e) <= 2 * crashes + 2

\* An entry that one thread has had all the way.
Whole(e) ==
  /\ whole[e] = published[e]
  /\ ~(On("app", e) /\ On("notify", e))
  /\ dir[e] = "gone" => published[e] = 1 /\ \A t \in H!Threads : ~On(t, e)
  /\ dir[e] # "gone" => published[e] = Removals(e)
  /\ dir[e] \in {"written", "committed"} /\ (\A t \in H!Threads : ~On(t, e)) => sharedFile[e] = "copied"
  /\ \A t \in H!Threads : On(t, e) =>
       /\ hand[t].step = "move" => sharedFile[e] = "copied"
       /\ hand[t].step = "publish" => hand[t].has

HandoffInv ==
  /\ H!TypeOK /\ DOMAIN whole = Entries
  /\ \A e \in Entries : Reached(e) /\ Counted(e) /\ (e \notin disturbed => Whole(e))

LEMMA Numbers ==
  ASSUME NEW e
  PROVE  /\ Moves(e) \in 0..2 /\ Removals(e) \in 0..2 /\ Moves(e) + Removals(e) <= 2
         /\ Moves(e)' \in 0..2 /\ Removals(e)' \in 0..2
BY DEF Moves, Removals, One, Moving, Removing

\* The type invariant, part by part.
DiskTyped ==
  /\ dir \in [Entries -> {"none", "partial", "written", "committed", "gone"}]
  /\ sharedFile \in [Entries -> {"none", "copied", "moved"}]
  /\ unposted \subseteq {e \in Entries : dir[e] \in {"committed", "gone"}}

AppTyped ==
  /\ app \in {"down", "starting", "up"} /\ observing \in BOOLEAN /\ posted \in BOOLEAN
  /\ posted => observing
  /\ crashes \in 0..MaxCrashes

DrainTyped ==
  /\ todo \in [H!Threads -> SUBSET Entries]
  /\ hand \in [H!Threads -> H!Hand \cup {H!Nothing}]
  /\ disturbed \subseteq Entries

HistoryTyped ==
  /\ published \in [Entries -> 0..(2 * (MaxCrashes + 1))]
  /\ \A e \in Entries : whole[e] \in 0..published[e]

LEMMA Parts == H!TypeOK <=> DiskTyped /\ AppTyped /\ DrainTyped /\ HistoryTyped
BY DEF H!TypeOK, DiskTyped, AppTyped, DrainTyped, HistoryTyped

\* What a thread has in hand.
LEMMA InHand ==
  ASSUME DrainTyped, NEW t \in H!Threads
  PROVE  \/ hand[t] = H!Nothing /\ hand[t].step = "none"
         \/ /\ hand[t] # H!Nothing /\ hand[t].entry \in Entries
            /\ hand[t].step \in {"move", "publish", "remove"} /\ hand[t].has \in BOOLEAN
<1>1. \A x \in H!Hand : /\ x # H!Nothing /\ x.entry \in Entries
                         /\ x.step \in {"move", "publish", "remove"} /\ x.has \in BOOLEAN
  BY DEF H!Hand, H!Nothing
<1>2. hand[t] \in H!Hand \cup {H!Nothing}
  BY DEF DrainTyped
<1>3. H!Nothing.step = "none"
  BY DEF H!Nothing
<1> QED BY <1>1, <1>2, <1>3

ExtensionStep(e) ==
  H!beginEntry(e) \/ H!copyFile(e) \/ H!writeManifest(e) \/ H!commit(e) \/ H!postHandoff(e)

LEMMA HandoffTyped ==
  ASSUME H!ShareHandoffAssumption, HandoffInv, H!Next
  PROVE  H!TypeOK'
<1>0. DiskTyped /\ AppTyped /\ DrainTyped /\ HistoryTyped /\ MaxCrashes \in Nat
  BY Parts DEF HandoffInv, H!ShareHandoffAssumption
<1>1. DiskTyped'
  <2> USE DEF DiskTyped
  <2>1. ASSUME NEW e \in Entries, ExtensionStep(e) PROVE DiskTyped'
    BY <1>0, <2>1
    DEF ExtensionStep, H!beginEntry, H!copyFile, H!writeManifest, H!commit, H!postHandoff
  <2>2. ASSUME \/ H!Launch \/ H!observe_app_group_handoffs \/ H!Crash
               \/ H!drain_app_group_inbox \/ H!on_handoff
        PROVE  DiskTyped'
    BY <1>0, <2>2
    DEF H!Launch, H!observe_app_group_handoffs, H!Crash, H!drain_app_group_inbox, H!on_handoff, H!diskVars
  <2>3. ASSUME NEW t \in H!Threads, H!DrainRuns(t) PROVE DiskTyped'
    <3>1. CASE H!read_entry(t)
      BY <1>0, <3>1 DEF H!read_entry
    <3>2. CASE H!move_file(t)
      <4>1. /\ UNCHANGED <<dir, unposted>>
            /\ \/ UNCHANGED sharedFile
               \/ sharedFile' = [sharedFile EXCEPT ![hand[t].entry] = IF @ = "copied" THEN "moved" ELSE @]
        BY <3>2 DEF H!move_file
      <4> QED BY <1>0, <4>1
    <3>3. CASE H!publish(t)
      BY <1>0, <3>3 DEF H!publish, H!diskVars
    <3>4. CASE H!remove_dir_all(t)
      BY <1>0, <3>4 DEF H!remove_dir_all
    <3> QED BY <2>3, <3>1, <3>2, <3>3, <3>4 DEF H!DrainRuns
  <2> QED BY <2>1, <2>2, <2>3 DEF H!Next, ExtensionStep
<1>2. AppTyped'
  <2> USE DEF AppTyped
  <2>1. ASSUME NEW e \in Entries, ExtensionStep(e) PROVE AppTyped'
    BY <1>0, <2>1
    DEF ExtensionStep, H!beginEntry, H!copyFile, H!writeManifest, H!commit, H!postHandoff, H!appVars
  <2>2. ASSUME \/ H!Launch \/ H!observe_app_group_handoffs \/ H!Crash
               \/ H!drain_app_group_inbox \/ H!on_handoff
        PROVE  AppTyped'
    <3>1. CASE H!Crash
      <4>1. /\ crashes' = crashes + 1 /\ crashes < MaxCrashes
            /\ app' = "down" /\ observing' = FALSE /\ posted' = FALSE
        BY <3>1 DEF H!Crash
      <4>2. crashes' \in 0..MaxCrashes
        BY <1>0, <4>1
      <4> QED BY <4>1, <4>2
    <3>2. CASE H!Launch \/ H!drain_app_group_inbox
      <4>1. /\ app' \in {"starting", "up"} /\ UNCHANGED <<observing, posted, crashes>>
        BY <3>2 DEF H!Launch, H!drain_app_group_inbox
      <4> QED BY <1>0, <4>1
    <3>3. CASE H!observe_app_group_handoffs
      <4>1. observing' = TRUE /\ UNCHANGED <<app, posted, crashes>>
        BY <3>3 DEF H!observe_app_group_handoffs
      <4> QED BY <1>0, <4>1
    <3>4. CASE H!on_handoff
      <4>1. posted' = FALSE /\ UNCHANGED <<app, observing, crashes>>
        BY <3>4 DEF H!on_handoff
      <4> QED BY <1>0, <4>1
    <3> QED BY <2>2, <3>1, <3>2, <3>3, <3>4
  <2>3. ASSUME NEW t \in H!Threads, H!DrainRuns(t) PROVE AppTyped'
    BY <1>0, <2>3
    DEF H!DrainRuns, H!read_entry, H!move_file, H!publish, H!remove_dir_all, H!appVars
  <2> QED BY <2>1, <2>2, <2>3 DEF H!Next, ExtensionStep
<1>3. DrainTyped'
  <2>1. ASSUME \/ \E e \in Entries : ExtensionStep(e)
               \/ H!Launch \/ H!observe_app_group_handoffs
        PROVE  DrainTyped'
    BY <1>0, <2>1
    DEF DrainTyped, ExtensionStep, H!beginEntry, H!copyFile, H!writeManifest, H!commit, H!postHandoff, H!Launch,
        H!observe_app_group_handoffs, H!drainVars, H!historyVars
  <2>2. CASE H!Crash
    <3>1. disturbed' \subseteq Entries
      BY <1>0, <2>2, InHand DEF DrainTyped, H!Crash
    <3> QED BY <2>2, <3>1 DEF DrainTyped, H!Crash
  <2>3. CASE H!drain_app_group_inbox \/ H!on_handoff
    <3>1. /\ UNCHANGED <<hand, disturbed>>
          /\ \E t \in H!Threads : todo' = [todo EXCEPT ![t] = {e \in Entries : dir[e] = "committed"}]
      BY <2>3 DEF H!drain_app_group_inbox, H!on_handoff, H!read_dir, H!historyVars, H!Threads
    <3> QED BY <1>0, <3>1 DEF DrainTyped
  <2>4. ASSUME NEW t \in H!Threads, H!read_entry(t) PROVE DrainTyped'
    <3>1. PICK e \in todo[t] :
            /\ todo' = [todo EXCEPT ![t] = @ \ {e}]
            /\ \/ UNCHANGED <<hand, disturbed>>
               \/ /\ hand' = [hand EXCEPT ![t] = [entry |-> e, step |-> "move", has |-> FALSE]]
                  /\ disturbed' = disturbed \cup {e} \/ disturbed' = disturbed
      BY <2>4 DEF H!read_entry
    <3>2. e \in Entries /\ [entry |-> e, step |-> "move", has |-> FALSE] \in H!Hand
      BY <1>0 DEF DrainTyped, H!Hand
    <3> QED BY <1>0, <3>1, <3>2 DEF DrainTyped
  <2>5. ASSUME NEW t \in H!Threads, H!move_file(t) \/ H!publish(t) \/ H!remove_dir_all(t) PROVE DrainTyped'
    <3>1. /\ UNCHANGED <<todo, disturbed>> /\ hand[t].step # "none"
          /\ \/ hand' = [hand EXCEPT ![t] = H!Nothing]
             \/ \E b \in BOOLEAN : hand' = [hand EXCEPT ![t].step = "publish", ![t].has = b]
             \/ hand' = [hand EXCEPT ![t].step = "remove"]
      BY <2>5 DEF H!move_file, H!publish, H!remove_dir_all, H!historyVars
    <3>2. \A b \in BOOLEAN : [hand[t] EXCEPT !.step = "publish", !.has = b] \in H!Hand
      BY <1>0, <3>1, InHand DEF DrainTyped, H!Hand
    <3>3. [hand[t] EXCEPT !.step = "remove"] \in H!Hand
      BY <1>0, <3>1, InHand DEF DrainTyped, H!Hand
    <3> QED BY <1>0, <3>1, <3>2, <3>3 DEF DrainTyped
  <2> QED BY <2>1, <2>2, <2>3, <2>4, <2>5 DEF H!Next, H!DrainRuns, ExtensionStep
<1>4. HistoryTyped'
  <2>1. ASSUME UNCHANGED <<published, whole>> PROVE HistoryTyped'
    BY <1>0, <2>1 DEF HistoryTyped
  <2>2. ASSUME NEW t \in H!Threads, H!publish(t) PROVE HistoryTyped'
    <3> DEFINE e == hand[t].entry
    <3>0. e \in Entries /\ hand[t].step = "publish" /\ Moves(e) >= 1
      BY <1>0, <2>2, InHand DEF H!publish, Moves, One, Moving, H!Threads
    <3>1. /\ published' = [published EXCEPT ![e] = @ + 1]
          /\ \E k \in {0, 1} : whole' = [whole EXCEPT ![e] = @ + k]
      BY <2>2 DEF H!publish
    <3>2. published[e] + 1 <= 2 * (MaxCrashes + 1)
      <4>1. published[e] \in Nat /\ crashes \in 0..MaxCrashes /\ Counted(e)
        BY <1>0, <3>0 DEF HandoffInv, HistoryTyped, AppTyped
      <4> HIDE DEF e
      <4> QED BY <1>0, <3>0, <4>1, Numbers DEF Counted
    <3> HIDE DEF e
    <3>3. published' \in [Entries -> 0..(2 * (MaxCrashes + 1))]
      BY <1>0, <3>0, <3>1, <3>2 DEF HistoryTyped
    <3>4. \A x \in Entries : whole'[x] \in 0..published'[x]
      BY <1>0, <3>0, <3>1 DEF HistoryTyped
    <3> QED BY <3>3, <3>4 DEF HistoryTyped
  <2>3. UNCHANGED <<published, whole>> \/ \E t \in H!Threads : H!publish(t)
    BY DEF H!Next, H!DrainRuns, H!beginEntry, H!copyFile, H!writeManifest, H!commit,
       H!postHandoff, H!Launch,
       H!observe_app_group_handoffs, H!Crash, H!drain_app_group_inbox, H!on_handoff, H!read_entry,
       H!move_file, H!remove_dir_all, H!historyVars
  <2> QED BY <2>1, <2>2, <2>3
<1> QED BY <1>1, <1>2, <1>3, <1>4 DEF H!TypeOK, DiskTyped, AppTyped, DrainTyped, HistoryTyped

\* What holds of each entry.
EntryKept(e) == Reached(e) /\ Counted(e) /\ (e \notin disturbed => Whole(e))

LEMMA EntryUntouched ==
  ASSUME NEW e, EntryKept(e),
         UNCHANGED <<hand, todo, published, whole, disturbed, crashes>>,
         dir'[e] = dir[e] \/ (dir[e] \notin {"committed", "gone"} /\ dir'[e] # "gone"),
         dir'[e] \in {"written", "committed"} =>
           sharedFile'[e] = "copied" \/ (dir[e] \in {"written", "committed"} /\ sharedFile'[e] = sharedFile[e]),
         sharedFile'[e] = sharedFile[e] \/ dir[e] \notin {"committed", "gone"}
  PROVE  EntryKept(e)'
<1>0. (\A t \in H!Threads : On(t, e)' <=> On(t, e)) /\ Moves(e)' = Moves(e)
      /\ Removals(e)' = Removals(e)
      /\ (\A t \in H!Threads : Removing(t, e)' <=> Removing(t, e))
  BY DEF On, Moves, Removals, Moving, Removing, One
<1>1. Reached(e)'
  BY <1>0 DEF EntryKept, Reached
<1>2. Counted(e)'
  BY <1>0, Numbers DEF EntryKept, Reached, Counted
<1>3. ASSUME e \notin disturbed' PROVE Whole(e)'
  BY <1>0, <1>3 DEF EntryKept, Whole, Reached, H!Threads
<1> QED BY <1>1, <1>2, <1>3 DEF EntryKept

LEMMA EntryExtension ==
  ASSUME DiskTyped, NEW e \in Entries, EntryKept(e), NEW x \in Entries, ExtensionStep(x)
  PROVE  EntryKept(e)'
<1>1. UNCHANGED <<hand, todo, published, whole, disturbed, crashes>>
  BY DEF ExtensionStep, H!beginEntry, H!copyFile, H!writeManifest, H!commit, H!postHandoff,
     H!drainVars,
     H!historyVars, H!appVars
<1>2. /\ dir'[e] = dir[e] \/ (dir[e] \notin {"committed", "gone"} /\ dir'[e] # "gone")
      /\ dir'[e] \in {"written", "committed"} =>
           sharedFile'[e] = "copied" \/ (dir[e] \in {"written", "committed"} /\ sharedFile'[e] = sharedFile[e])
      /\ sharedFile'[e] = sharedFile[e] \/ dir[e] \notin {"committed", "gone"}
  <2> USE DEF DiskTyped
  <2>1. CASE H!beginEntry(x)
    BY <2>1 DEF H!beginEntry
  <2>2. CASE H!copyFile(x)
    BY <2>2 DEF H!copyFile
  <2>3. CASE H!writeManifest(x)
    BY <2>3 DEF H!writeManifest
  <2>4. CASE H!commit(x)
    BY <2>4 DEF H!commit
  <2>5. CASE H!postHandoff(x)
    BY <2>5 DEF H!postHandoff
  <2> QED BY <2>1, <2>2, <2>3, <2>4, <2>5 DEF ExtensionStep
<1> QED BY <1>1, <1>2, EntryUntouched

LEMMA EntryCrash ==
  ASSUME AppTyped, DrainTyped, HistoryTyped, NEW e \in Entries, EntryKept(e), H!Crash, MaxCrashes \in Nat
  PROVE  EntryKept(e)'
<1>1. /\ crashes' = crashes + 1 /\ \A t \in H!Threads : ~On(t, e)' /\ ~Removing(t, e)' /\ todo'[t] = {}
      /\ UNCHANGED <<dir, sharedFile, published, whole>>
      /\ Moves(e)' = 0 /\ Removals(e)' = 0
  BY DEF H!Crash, H!diskVars, On, Moves, Removals, Moving, Removing, One, H!Nothing, H!Threads
<1>2. Reached(e)'
  BY <1>1 DEF EntryKept, Reached
<1>3. Counted(e)'
  <2>1. crashes \in Nat /\ published[e] \in Nat
    BY DEF AppTyped, HistoryTyped
  <2> QED BY <1>1, <2>1, Numbers DEF EntryKept, Counted
<1>4. ASSUME e \notin disturbed' PROVE Whole(e)'
  <2>1. e \notin disturbed /\ \A t \in H!Threads : ~On(t, e)
    BY <1>4, InHand DEF H!Crash, On
  <2>2. Removals(e) = 0
    BY <2>1 DEF On, Removals, Removing, One, H!Threads
  <2> QED BY <1>1, <2>1, <2>2 DEF EntryKept, Whole, H!Threads
<1> QED BY <1>2, <1>3, <1>4 DEF EntryKept

LEMMA EntryListed ==
  ASSUME DiskTyped, DrainTyped, NEW e \in Entries, EntryKept(e), NEW t \in H!Threads,
         todo' = [todo EXCEPT ![t] = {x \in Entries : dir[x] = "committed"}],
         UNCHANGED <<hand, dir, sharedFile, published, whole, disturbed, crashes>>
  PROVE  EntryKept(e)'
<1>1. (\A x \in H!Threads : On(x, e)' <=> On(x, e)) /\ Moves(e)' = Moves(e)
      /\ Removals(e)' = Removals(e)
      /\ (\A x \in H!Threads : Removing(x, e)' <=> Removing(x, e))
  BY DEF On, Moves, Removals, Moving, Removing, One
<1>2. \A x \in H!Threads : e \in todo'[x] => e \in todo[x] \/ dir[e] = "committed"
  BY DEF DrainTyped
<1>3. Reached(e)'
  BY <1>1, <1>2 DEF EntryKept, Reached
<1>4. Counted(e)'
  BY <1>1, Numbers DEF EntryKept, Counted
<1>5. ASSUME e \notin disturbed' PROVE Whole(e)'
  BY <1>1, <1>5 DEF EntryKept, Whole, H!Threads
<1> QED BY <1>3, <1>4, <1>5 DEF EntryKept

\* The other thread keeps what it has.
Other(t) == IF t = "app" THEN "notify" ELSE "app"

LEMMA Two ==
  ASSUME NEW t \in H!Threads, NEW e
  PROVE  /\ Other(t) \in H!Threads /\ Other(t) # t /\ H!Threads = {t, Other(t)}
         /\ Moves(e) = One(Moving(t, e)) + One(Moving(Other(t), e))
         /\ Removals(e) = One(Removing(t, e)) + One(Removing(Other(t), e))
         /\ Moves(e)' = One(Moving(t, e)') + One(Moving(Other(t), e)')
         /\ Removals(e)' = One(Removing(t, e)') + One(Removing(Other(t), e)')
BY DEF H!Threads, Other, Moves, Removals, One, Moving, Removing

LEMMA OtherKeeps ==
  ASSUME NEW t \in H!Threads, hand'[Other(t)] = hand[Other(t)], NEW e
  PROVE  /\ On(Other(t), e)' = On(Other(t), e)
         /\ Moving(Other(t), e)' = Moving(Other(t), e)
         /\ Removing(Other(t), e)' = Removing(Other(t), e)
BY DEF On, Moving, Removing

LEMMA EntryRead ==
  ASSUME DiskTyped, DrainTyped, AppTyped, HistoryTyped, MaxCrashes \in Nat,
         \A x \in Entries : EntryKept(x),
         NEW e \in Entries, NEW t \in H!Threads, H!read_entry(t)
  PROVE  EntryKept(e)'
<1> DEFINE o == Other(t)
<1>1. /\ H!Threads = {t, o} /\ o # t
  BY Two
<1>2. hand[t].step = "none" /\ ~On(t, e) /\ ~Moving(t, e) /\ ~Removing(t, e)
  BY InHand DEF H!read_entry, On, Moving, Removing
<1>3. PICK x \in todo[t] :
        /\ todo' = [todo EXCEPT ![t] = @ \ {x}]
        /\ \/ /\ dir[x] \in {"written", "committed"} /\ UNCHANGED dir
              /\ hand' = [hand EXCEPT ![t] = [entry |-> x, step |-> "move", has |-> FALSE]]
              /\ (\E y \in H!Threads : hand[y] # H!Nothing /\ hand[y].entry = x) => x \in disturbed'
              /\ disturbed \subseteq disturbed'
           \/ /\ dir[x] \notin {"written", "committed"} /\ dir' = [dir EXCEPT ![x] = "gone"]
              /\ UNCHANGED <<hand, disturbed>>
  BY DEF H!read_entry
<1>4. UNCHANGED <<sharedFile, published, whole, crashes>>
  BY DEF H!read_entry, H!appVars
<1>5. x \in Entries /\ dir[x] \in {"committed", "gone"} /\ UNCHANGED dir
  <2>1. x \in Entries
    BY DEF DrainTyped
  <2>2. dir[x] \in {"committed", "gone"}
    BY <2>1 DEF EntryKept, Reached
  <2> QED BY <1>3, <2>1, <2>2 DEF DiskTyped
<1>6. hand'[o] = hand[o]
  BY <1>1, <1>3 DEF DrainTyped
<1>7. /\ On(o, e)' = On(o, e) /\ Moving(o, e)' = Moving(o, e) /\ Removing(o, e)' = Removing(o, e)
  BY <1>6, OtherKeeps
<1>8. \A y \in H!Threads : todo'[y] \subseteq todo[y]
  BY <1>3 DEF DrainTyped
<1>9. CASE dir[x] = "committed" /\ x = e
  <2>1. On(t, e)' /\ Moving(t, e)' /\ ~Removing(t, e)' /\ hand'[t].step = "move"
    BY <1>3, <1>9 DEF On, Moving, Removing, DrainTyped
  <2>2. Removals(e)' = Removals(e)
    BY <1>2, <1>7, <2>1, Two DEF One
  <2>3. Reached(e)'
    BY <1>1, <1>4, <1>5, <1>7, <1>8, <1>9, <2>1 DEF EntryKept, Reached
  <2>4. Counted(e)'
    BY <1>4, <1>5, <1>9, <2>2 DEF EntryKept, Counted
  <2>5. ASSUME e \notin disturbed' PROVE Whole(e)'
    <3>1. e \notin disturbed /\ ~On(o, e)
      BY <1>1, <1>3, <1>9, <2>5, InHand DEF On
    <3> QED BY <1>1, <1>2, <1>4, <1>5, <1>6, <1>7, <1>9, <2>1, <2>2, <3>1 DEF EntryKept, Whole, H!Threads
  <2> QED BY <2>3, <2>4, <2>5 DEF EntryKept
<1>10. CASE ~(dir[x] = "committed" /\ x = e)
  <2>1. ~On(t, e)' /\ ~Moving(t, e)' /\ ~Removing(t, e)'
    BY <1>2, <1>3, <1>5, <1>10 DEF On, Moving, Removing, DrainTyped
  <2>2. Removals(e)' = Removals(e) /\ Moves(e)' = Moves(e)
    BY <1>2, <1>7, <2>1, Two DEF One
  <2>3. Reached(e)'
    BY <1>1, <1>2, <1>4, <1>5, <1>7, <1>8, <2>1 DEF EntryKept, Reached
  <2>4. Counted(e)'
    BY <1>4, <1>5, <2>2 DEF EntryKept, Counted
  <2>5. ASSUME e \notin disturbed' PROVE Whole(e)'
    BY <1>1, <1>2, <1>3, <1>4, <1>5, <1>6, <1>7, <2>1, <2>2, <2>5 DEF EntryKept, Whole, H!Threads
  <2> QED BY <2>3, <2>4, <2>5 DEF EntryKept
<1> QED BY <1>9, <1>10

LEMMA EntryMoved ==
  ASSUME DiskTyped, DrainTyped, NEW e \in Entries, EntryKept(e), NEW t \in H!Threads, H!move_file(t)
  PROVE  EntryKept(e)'
<1> DEFINE o == Other(t)
           x == hand[t].entry
<1>1. H!Threads = {t, o} /\ o # t
  BY Two
<1>2. /\ hand[t].step = "move"
      /\ hand' = [hand EXCEPT ![t].step = "publish", ![t].has = (sharedFile[x] = "copied")]
      /\ UNCHANGED <<dir, todo, published, whole, disturbed, crashes>>
      /\ \/ sharedFile' = [sharedFile EXCEPT ![x] = IF @ = "copied" THEN "moved" ELSE @]
         \/ UNCHANGED sharedFile
  BY DEF H!move_file, H!appVars, H!historyVars
<1>3. x \in Entries /\ hand[t] \in H!Hand
  BY <1>2, InHand DEF DrainTyped
<1>4. hand'[o] = hand[o]
  BY <1>1, <1>2 DEF DrainTyped
<1>5. /\ hand'[t].step = "publish" /\ hand'[t].entry = x
      /\ hand'[t].has = (sharedFile[x] = "copied")
  BY <1>2, <1>3 DEF DrainTyped, H!Hand
<1>6. /\ On(o, e)' = On(o, e) /\ Moving(o, e)' = Moving(o, e) /\ Removing(o, e)' = Removing(o, e)
  BY <1>4, OtherKeeps
<1>7. /\ On(t, e)' = On(t, e) /\ Moving(t, e)' = Moving(t, e) /\ Removing(t, e)' = Removing(t, e)
  BY <1>2, <1>5 DEF On, Moving, Removing
<1>8. Removals(e)' = Removals(e) /\ Moves(e)' = Moves(e)
  BY <1>6, <1>7, Two DEF One
<1>9. Reached(e)'
  BY <1>1, <1>2, <1>6, <1>7 DEF EntryKept, Reached
<1>10. Counted(e)'
  BY <1>2, <1>8 DEF EntryKept, Counted
<1>11. ASSUME e \notin disturbed' PROVE Whole(e)'
  <2>1. Whole(e)
    BY <1>2, <1>11 DEF EntryKept
  <2>2. CASE x = e
    <3>0. On(t, e)
      BY <1>2, <2>2 DEF On
    <3>1. On(t, e) /\ ~On(o, e) /\ hand'[t].has
      <4>1. ~On(o, e)
        BY <1>1, <2>1, <3>0 DEF Whole, H!Threads
      <4>2. sharedFile[e] = "copied"
        BY <1>2, <2>1, <3>0 DEF Whole
      <4> QED BY <1>5, <2>2, <3>0, <4>1, <4>2
    <3>2. dir'[e] # "gone" /\ published'[e] = Removals(e)' /\ whole'[e] = published'[e]
      BY <1>2, <1>8, <2>1, <3>0 DEF Whole
    <3>3. On(t, e)' /\ ~On(o, e)'
      BY <1>6, <1>7, <3>1
    <3>4. \A u \in H!Threads : On(u, e)' => hand'[u].step = "publish" /\ hand'[u].has
      BY <1>1, <1>5, <3>1, <3>3
    <3>5. ~(On("app", e)' /\ On("notify", e)') /\ ~(\A u \in H!Threads : ~On(u, e)')
      BY <1>1, <3>3 DEF H!Threads
    <3> QED BY <3>2, <3>4, <3>5 DEF Whole
  <2>3. CASE x # e
    <3>1. ~On(t, e) /\ sharedFile'[e] = sharedFile[e]
      BY <1>2, <1>3, <2>3 DEF On, DiskTyped
    <3> QED BY <1>1, <1>2, <1>4, <1>6, <1>7, <1>8, <2>1, <3>1 DEF Whole, H!Threads
  <2> QED BY <2>2, <2>3
<1> QED BY <1>9, <1>10, <1>11 DEF EntryKept

LEMMA EntryPublished ==
  ASSUME DrainTyped, HistoryTyped, AppTyped, MaxCrashes \in Nat,
         DOMAIN whole = Entries, NEW e \in Entries, EntryKept(e), NEW t \in H!Threads, H!publish(t)
  PROVE  EntryKept(e)'
<1> DEFINE o == Other(t)
           x == hand[t].entry
<1>0. crashes \in Nat /\ published[e] \in Nat /\ whole[e] \in Nat
  BY DEF HistoryTyped, AppTyped
<1>1. H!Threads = {t, o} /\ o # t
  BY Two
<1>2. /\ hand[t].step = "publish" /\ hand' = [hand EXCEPT ![t].step = "remove"]
      /\ UNCHANGED <<dir, sharedFile, todo, disturbed, crashes>>
      /\ published' = [published EXCEPT ![x] = @ + 1]
      /\ whole' = [whole EXCEPT ![x] = @ + IF hand[t].has THEN 1 ELSE 0]
  BY DEF H!publish, H!appVars, H!diskVars
<1>3. x \in Entries /\ hand[t] \in H!Hand
  BY <1>2, InHand DEF DrainTyped
<1>4. hand'[o] = hand[o]
  BY <1>1, <1>2 DEF DrainTyped
<1>5. hand'[t].step = "remove" /\ hand'[t].entry = x
  BY <1>2, <1>3 DEF DrainTyped, H!Hand
<1>6. /\ On(o, e)' = On(o, e) /\ Moving(o, e)' = Moving(o, e) /\ Removing(o, e)' = Removing(o, e)
  BY <1>4, OtherKeeps
<1>7. On(t, e)' = On(t, e)
  BY <1>2, <1>5 DEF On
<1>8. CASE x # e
  <2>1. /\ ~On(t, e) /\ ~Moving(t, e)' /\ ~Moving(t, e) /\ ~Removing(t, e)' /\ ~Removing(t, e)
        /\ published'[e] = published[e] /\ whole'[e] = whole[e]
    BY <1>2, <1>3, <1>5, <1>8 DEF On, Moving, Removing, HistoryTyped
  <2>2. Removals(e)' = Removals(e) /\ Moves(e)' = Moves(e)
    BY <1>6, <2>1, Two DEF One
  <2>3. Reached(e)' /\ Counted(e)'
    BY <1>1, <1>2, <1>6, <1>7, <2>1, <2>2 DEF EntryKept, Reached, Counted
  <2>4. ASSUME e \notin disturbed' PROVE Whole(e)'
    BY <1>1, <1>2, <1>4, <1>6, <1>7, <2>1, <2>2, <2>4 DEF EntryKept, Whole, H!Threads
  <2> QED BY <2>3, <2>4 DEF EntryKept
<1>9. CASE x = e
  <2>1. /\ On(t, e) /\ ~Moving(t, e)' /\ Moving(t, e) /\ Removing(t, e)' /\ ~Removing(t, e)
        /\ published'[e] = published[e] + 1
    BY <1>2, <1>3, <1>5, <1>9 DEF On, Moving, Removing, HistoryTyped
  <2>2. Removals(e)' = Removals(e) + 1 /\ Moves(e)' = Moves(e) - 1
    BY <1>6, <2>1, Two DEF One
  <2>3. Reached(e)'
    <3>1. published'[e] > 0
      BY <1>0, <2>1
    <3> QED BY <1>1, <1>2, <1>6, <1>7, <3>1 DEF EntryKept, Reached
  <2>4. Counted(e)'
    BY <1>0, <1>2, <2>1, <2>2, Numbers DEF EntryKept, Counted
  <2>5. ASSUME e \notin disturbed' PROVE Whole(e)'
    <3>1. Whole(e) /\ ~On(o, e) /\ hand[t].has /\ dir[e] # "gone"
      BY <1>1, <1>2, <1>9, <2>1, <2>5 DEF EntryKept, Whole, H!Threads, On
    <3>2. whole'[e] = whole[e] + 1
      <4>1. (IF hand[t].has THEN 1 ELSE 0) = 1
        BY <3>1
      <4>2. whole' = [whole EXCEPT ![x] = @ + 1] /\ e \in DOMAIN whole
        BY <1>2, <4>1
      <4> QED BY <1>9, <4>2
    <3>3. whole'[e] = published'[e] /\ published'[e] = Removals(e)'
      BY <1>0, <2>1, <2>2, <3>1, <3>2 DEF Whole
    <3> QED BY <1>1, <1>2, <1>5, <1>6, <1>7, <2>1, <3>1, <3>3 DEF Whole, H!Threads
  <2> QED BY <2>3, <2>4, <2>5 DEF EntryKept
<1> QED BY <1>8, <1>9

LEMMA EntryRemoved ==
  ASSUME DiskTyped, DrainTyped, HistoryTyped, AppTyped, MaxCrashes \in Nat,
         NEW e \in Entries, EntryKept(e), NEW t \in H!Threads, H!remove_dir_all(t)
  PROVE  EntryKept(e)'
<1> DEFINE o == Other(t)
           x == hand[t].entry
<1>0. crashes \in Nat /\ published[e] \in Nat /\ whole[e] \in Nat
  BY DEF HistoryTyped, AppTyped
<1>1. H!Threads = {t, o} /\ o # t
  BY Two
<1>2. /\ hand[t].step = "remove" /\ hand' = [hand EXCEPT ![t] = H!Nothing]
      /\ UNCHANGED <<sharedFile, todo, published, whole, disturbed, crashes>>
      /\ dir' = [dir EXCEPT ![x] = "gone"]
  BY DEF H!remove_dir_all, H!appVars, H!historyVars
<1>3. x \in Entries
  BY <1>2, InHand
<1>4. hand'[o] = hand[o] /\ hand'[t].step = "none"
  BY <1>1, <1>2 DEF DrainTyped, H!Nothing
<1>6. /\ On(o, e)' = On(o, e) /\ Moving(o, e)' = Moving(o, e) /\ Removing(o, e)' = Removing(o, e)
  BY <1>4, OtherKeeps
<1>7. ~On(t, e)' /\ ~Moving(t, e)' /\ ~Removing(t, e)' /\ ~Moving(t, e)
  BY <1>2, <1>4 DEF On, Moving, Removing
<1>8. CASE x # e
  <2>1. ~On(t, e) /\ ~Removing(t, e) /\ dir'[e] = dir[e]
    BY <1>2, <1>3, <1>8 DEF On, Removing, DiskTyped
  <2>2. Removals(e)' = Removals(e) /\ Moves(e)' = Moves(e)
    BY <1>6, <1>7, <2>1, Two DEF One
  <2>3. Reached(e)' /\ Counted(e)'
    BY <1>1, <1>2, <1>6, <1>7, <2>1, <2>2 DEF EntryKept, Reached, Counted
  <2>4. ASSUME e \notin disturbed' PROVE Whole(e)'
    BY <1>1, <1>2, <1>4, <1>6, <1>7, <2>1, <2>2, <2>4 DEF EntryKept, Whole, H!Threads
  <2> QED BY <2>3, <2>4 DEF EntryKept
<1>9. CASE x = e
  <2>1. On(t, e) /\ Removing(t, e) /\ dir'[e] = "gone" /\ published[e] > 0
    BY <1>2, <1>3, <1>9 DEF On, Removing, DiskTyped, EntryKept, Reached
  <2>2. Moves(e)' = Moves(e) /\ Removals(e) >= 1
    BY <1>6, <1>7, <2>1, Two DEF One
  <2>3. Reached(e)'
    BY <1>1, <1>2, <1>6, <1>7, <2>1 DEF EntryKept, Reached
  <2>4. Counted(e)'
    BY <1>0, <1>2, <2>1, <2>2, Numbers DEF EntryKept, Counted
  <2>5. ASSUME e \notin disturbed' PROVE Whole(e)'
    <3>1. Whole(e) /\ ~On(o, e) /\ dir[e] # "gone"
      BY <1>1, <1>2, <2>1, <2>5 DEF EntryKept, Whole, H!Threads
    <3>2. published[e] = 1
      <4>1. ~Removing(o, e)
        BY <3>1 DEF On, Removing
      <4> QED BY <2>1, <3>1, <4>1, Two DEF Whole, One
    <3> QED BY <1>1, <1>2, <1>6, <1>7, <2>1, <3>1, <3>2 DEF Whole, H!Threads
  <2> QED BY <2>3, <2>4, <2>5 DEF EntryKept
<1> QED BY <1>8, <1>9

LEMMA HandoffStep ==
  ASSUME H!ShareHandoffAssumption, HandoffInv, H!Next
  PROVE  HandoffInv'
<1>1. H!TypeOK'
  BY HandoffTyped
<1>2. DiskTyped /\ AppTyped /\ DrainTyped /\ HistoryTyped /\ MaxCrashes \in Nat
      /\ DOMAIN whole = Entries
  BY Parts DEF HandoffInv, H!ShareHandoffAssumption
<1>3. \A e \in Entries : EntryKept(e)
  BY DEF HandoffInv, EntryKept
<1>4. ASSUME NEW e \in Entries PROVE EntryKept(e)'
  <2>1. CASE \E x \in Entries : ExtensionStep(x)
    BY <1>2, <1>3, <2>1, EntryExtension
  <2>2. CASE H!Launch \/ H!observe_app_group_handoffs
    <3>1. UNCHANGED <<hand, todo, published, whole, disturbed, crashes, dir, sharedFile>>
      BY <2>2 DEF H!Launch, H!observe_app_group_handoffs, H!drainVars, H!historyVars, H!diskVars
    <3> QED BY <1>3, <3>1, EntryUntouched
  <2>3. CASE H!Crash
    BY <1>2, <1>3, <2>3, EntryCrash
  <2>4. CASE H!drain_app_group_inbox \/ H!on_handoff
    <3>1. /\ UNCHANGED <<hand, dir, sharedFile, published, whole, disturbed, crashes>>
          /\ \E t \in H!Threads : todo' = [todo EXCEPT ![t] = {x \in Entries : dir[x] = "committed"}]
      BY <2>4
      DEF H!drain_app_group_inbox, H!on_handoff, H!read_dir, H!diskVars, H!historyVars, H!Threads
    <3> QED BY <1>2, <1>3, <3>1, EntryListed
  <2>5. ASSUME NEW t \in H!Threads, H!DrainRuns(t) PROVE EntryKept(e)'
    <3>1. CASE H!read_entry(t)
      BY <1>2, <1>3, <3>1, EntryRead
    <3>2. CASE H!move_file(t)
      BY <1>2, <1>3, <3>2, EntryMoved
    <3>3. CASE H!publish(t)
      BY <1>2, <1>3, <3>3, EntryPublished
    <3>4. CASE H!remove_dir_all(t)
      BY <1>2, <1>3, <3>4, EntryRemoved
    <3> QED BY <2>5, <3>1, <3>2, <3>3, <3>4 DEF H!DrainRuns
  <2> QED BY <2>1, <2>2, <2>3, <2>4, <2>5 DEF H!Next, ExtensionStep
<1>5. DOMAIN whole' = Entries
  <2>1. \/ UNCHANGED whole
        \/ \E t \in H!Threads : whole' = [whole EXCEPT ![hand[t].entry] = @ + IF hand[t].has THEN 1 ELSE 0]
    BY DEF H!Next, H!DrainRuns, H!beginEntry, H!copyFile, H!writeManifest, H!commit,
       H!postHandoff, H!Launch,
       H!observe_app_group_handoffs, H!Crash, H!drain_app_group_inbox, H!on_handoff, H!read_entry,
       H!move_file, H!publish, H!remove_dir_all, H!historyVars
  <2> QED BY <1>2, <2>1
<1> QED BY <1>1, <1>4, <1>5 DEF HandoffInv, EntryKept

\* Whatever entries there are and however often the app dies: no share is deleted
\* before it was published, and a share that no drain died with and no two drains
\* had in hand is published at most once, with its file (handoff.rs 44-119).
THEOREM SharesAlwaysKept == SharesSpec => []SharesKept
<1>0. H!ShareHandoffAssumption
  BY SharesAssumption
<1>1. SharesInit => HandoffInv
  <2> SUFFICES ASSUME H!Init PROVE HandoffInv
    BY DEF SharesInit
  <2>1. H!TypeOK
    <3>1. DiskTyped /\ DrainTyped
      BY DEF H!Init, DiskTyped, DrainTyped
    <3>2. AppTyped
      <4>1. crashes \in 0..MaxCrashes
        BY <1>0 DEF H!Init, H!ShareHandoffAssumption
      <4> QED BY <4>1 DEF H!Init, AppTyped
    <3>3. HistoryTyped
      BY <1>0 DEF H!Init, HistoryTyped, H!ShareHandoffAssumption
    <3> QED BY <3>1, <3>2, <3>3, Parts
  <2>2. ASSUME NEW e \in Entries PROVE Reached(e) /\ Counted(e) /\ Whole(e)
    <3>1. \A t \in H!Threads : ~On(t, e) /\ ~Removing(t, e) /\ e \notin todo[t]
      BY DEF H!Init, On, Removing, H!Nothing
    <3>2. Removals(e) = 0 /\ published[e] = 0 /\ whole[e] = 0 /\ dir[e] = "none" /\ crashes = 0
      BY <3>1 DEF H!Init, Removals, One, H!Threads
    <3> QED BY <3>1, <3>2 DEF Reached, Counted, Whole, H!Threads
  <2>3. DOMAIN whole = Entries
    BY DEF H!Init
  <2> QED BY <2>1, <2>2, <2>3 DEF HandoffInv
<1>2. HandoffInv /\ [SharesNext]_shareVars => HandoffInv'
  <2> SUFFICES ASSUME HandoffInv, [SharesNext]_shareVars PROVE HandoffInv'
    OBVIOUS
  <2>1. CASE H!Next
    BY <1>0, <2>1, HandoffStep
  <2>2. CASE UNCHANGED handoffVars
    BY <2>2
    DEF handoffVars, HandoffInv, H!TypeOK, Reached, Counted, Whole, On, Removing, Moving, Removals, Moves, One
  <2> QED BY <2>1, <2>2 DEF SharesNext, shareVars
<1>3. HandoffInv => SharesKept
  <2> SUFFICES ASSUME HandoffInv PROVE SharesKept
    OBVIOUS
  <2>1. H!GoneWasPublished
    BY DEF HandoffInv, Reached, H!GoneWasPublished
  <2>2. ASSUME NEW e \in Entries \ disturbed PROVE published[e] <= 1 /\ whole[e] = published[e]
    <3>1. Whole(e)
      BY DEF HandoffInv
    <3>2. ~(Removing("app", e) /\ Removing("notify", e))
      BY <3>1 DEF Whole, On, Removing
    <3>3. Removals(e) <= 1
      BY <3>2 DEF Removals, One
    <3> QED BY <3>1, <3>3 DEF Whole
  <2> QED BY <2>1, <2>2 DEF HandoffInv, SharesKept, H!NoneDeletedUnread, H!PublishedOnceAndWhole
<1> QED BY <1>1, <1>2, <1>3, PTL DEF SharesSpec
-----------------------------------------------------------------------------
(* The sheet.                                                              *)

Steps == {"new", "staging", "present", "waiting", "closing", "grace", "cancelling", "done"}
Replies == Sh!Answers \cup {None, "closed", "result"}

CallsTyped ==
  /\ system \in Systems /\ busy \in BOOLEAN
  /\ request \in [Calls -> Sh!Requests \cup {None}] /\ call \in [Calls -> Steps]
  /\ outcome \in [Calls -> Sh!Answers \cup {None}]
  /\ withdrawn \subseteq Calls /\ staged \subseteq Calls
WindowsTyped ==
  /\ window \in [Handles -> {"none", "open", "gone"}] /\ aimed \in [Calls -> Handles \cup {None}]
  /\ registered \subseteq Handles /\ hooked \subseteq Handles
  /\ subclassed \subseteq {h \in hooked : window[h] = "open"}
ScreenTyped ==
  /\ sheet \in [Calls -> {"none", "up", "chosen", "left"}] /\ reply \in [Calls -> Replies]
  /\ did \in [Calls -> SUBSET {"shared", "chosen", "left"}]
  /\ jobs \subseteq Calls /\ timers \subseteq Calls /\ active \in Calls \cup {None}
  /\ late \subseteq Calls /\ results \subseteq Calls
  /\ chosen \in Calls \cup {None} /\ taken \in Calls \cup {None}
QueueTyped == queue \in Seq(Sh!Messages)

\* One call at a time is past its first step.
Going(c) == call[c] \notin {"new", "done"}
OneGoing ==
  /\ \A c \in Calls : Going(c) => busy
  /\ \A c, d \in Calls : Going(c) /\ Going(d) => c = d

\* What is there of a call before and after.
Where(c) ==
  /\ outcome[c] # None <=> call[c] = "done"
  /\ call[c] = "cancelling" => c \in withdrawn
  /\ call[c] = "closing" => c \in withdrawn /\ system = "ios"
  /\ call[c] = "grace" => system = "android"
  /\ call[c] \in {"new", "staging", "present"} => sheet[c] = "none" /\ reply[c] = None
  /\ c \in jobs => /\ system \in Sh!Windows /\ call[c] \in {"waiting", "cancelling"}
                   /\ reply[c] = None /\ sheet[c] = "none"

\* What it was told, or is about to be.
Told(c) ==
  /\ outcome[c] = "shared" \/ reply[c] = "shared" => "shared" \in did[c]
  /\ outcome[c] = "chosen" \/ reply[c] = "chosen" => system = "android" \/ "chosen" \in did[c]
  /\ outcome[c] = "dismissed" \/ reply[c] = "dismissed" => "left" \in did[c] \/ c \in withdrawn
  /\ outcome[c] = "unknown" \/ reply[c] = "unknown" => system \in {"windows10", "android"}
  /\ reply[c] = "result" => system = "android"
  /\ c \in timers => /\ system = "macos" /\ "chosen" \in did[c]
                     /\ call[c] \notin {"new", "staging", "present"}

\* The activity's side is Android's.
Activity == results # {} \/ taken # None => system = "android"

\* A message is about a call that was presented.
Posted ==
  \A i \in DOMAIN queue :
    /\ call[queue[i].call] \notin {"new", "staging", "present"}
    /\ queue[i].kind = "close" => queue[i].call \in withdrawn

SheetBase ==
  /\ CallsTyped /\ WindowsTyped /\ ScreenTyped /\ QueueTyped
  /\ OneGoing /\ Activity /\ Posted
  /\ \A c \in Calls : Where(c) /\ Told(c)

\* iOS: a sheet is up for a call that still waits.
IosUp(c) == sheet[c] = "up" => call[c] \in {"waiting", "closing"} /\ reply[c] = None
IosSheets == system = "ios" => \A c \in Calls : IosUp(c)

\* macOS: what is queued about other calls comes after the closing of this one.
ClosedWithin(c, i, j) == \E k \in DOMAIN queue : i < k /\ k < j /\ queue[k] = Sh!Close(c)
Waits(c) == call[c] \in {"waiting", "cancelling"} /\ reply[c] = None
UpOnMac(c) ==
  sheet[c] = "up" =>
    /\ active = c
    /\ Waits(c) \/ (call[c] = "done" /\ \E k \in DOMAIN queue : queue[k] = Sh!Close(c))
    /\ \A j \in DOMAIN queue : queue[j].call # c => ClosedWithin(c, 0, j)
QueuedOnMac(i) ==
  LET c == queue[i].call IN
  /\ queue[i].kind = "close" => call[c] = "done"
  /\ queue[i].kind = "show" =>
       /\ sheet[c] = "none" /\ active # c
       /\ Waits(c) \/ (call[c] = "done" /\ \E k \in DOMAIN queue : i < k /\ queue[k] = Sh!Close(c))
       /\ \A j \in DOMAIN queue : i < j =>
            /\ queue[j].call # c => ClosedWithin(c, i, j)
            /\ queue[j].call = c => queue[j].kind = "close"
MacSheets ==
  system = "macos" =>
    /\ active # None => call[active] \notin {"new", "staging", "present"}
    /\ \A c \in Calls : UpOnMac(c)
    /\ \A i \in DOMAIN queue : QueuedOnMac(i)

SheetInv == SheetBase /\ IosSheets /\ MacSheets
-----------------------------------------------------------------------------

\* What a message at the end of the queue, or one less at its head, leaves there.
LEMMA PostsAtEnd ==
  ASSUME QueueTyped, NEW m \in Sh!Messages, Sh!post(m)
  PROVE  /\ QueueTyped' /\ DOMAIN queue = 1..Len(queue) /\ DOMAIN queue' = 1..(Len(queue) + 1)
         /\ Len(queue) \in Nat /\ queue'[Len(queue) + 1] = m
         /\ \A i \in DOMAIN queue : i \in DOMAIN queue' /\ queue'[i] = queue[i] /\ i <= Len(queue)
<1>1. queue' = Append(queue, m)
  BY DEF Sh!post
<1> QED BY <1>1 DEF QueueTyped

LEMMA TakesHead ==
  ASSUME QueueTyped, NEW ps, NEW kind, Sh!HandlesOf(ps, kind)
  PROVE  /\ QueueTyped' /\ system \in ps /\ 1 \in DOMAIN queue /\ Head(queue) = queue[1]
         /\ Head(queue) \in Sh!Messages /\ Head(queue).kind = kind /\ Head(queue).call \in Calls
         /\ \A i \in DOMAIN queue' : i + 1 \in DOMAIN queue /\ queue'[i] = queue[i + 1] /\ i >= 1
         /\ \A i \in DOMAIN queue : i # 1 => i - 1 \in DOMAIN queue' /\ queue'[i - 1] = queue[i]
         /\ DOMAIN queue \subseteq Nat /\ DOMAIN queue' \subseteq Nat
<1>1. /\ system \in ps /\ queue # <<>> /\ Head(queue).kind = kind /\ queue' = Tail(queue)
  BY DEF Sh!HandlesOf
<1>2. Len(queue) \in Nat /\ Len(queue) # 0 /\ Head(queue) = queue[1]
  BY <1>1 DEF QueueTyped
<1>3. QueueTyped' /\ DOMAIN queue' = 1..(Len(queue) - 1) /\ DOMAIN queue = 1..Len(queue)
  BY <1>1, <1>2 DEF QueueTyped
<1>4. queue[1] \in Sh!Messages
  BY <1>2 DEF QueueTyped
<1>5. \A i \in DOMAIN queue' : queue'[i] = queue[i + 1]
  BY <1>1, <1>2, <1>3 DEF QueueTyped
<1>6. queue[1].call \in Calls
  BY <1>4 DEF Sh!Messages
<1> QED BY <1>1, <1>2, <1>3, <1>4, <1>5, <1>6


\* What an invariant says of a call stays true when nothing about the call changes.
Keeps(d) ==
  /\ system' = system /\ call'[d] = call[d] /\ outcome'[d] = outcome[d]
  /\ reply'[d] = reply[d] /\ sheet'[d] = sheet[d] /\ did'[d] = did[d]
  /\ d \in withdrawn' <=> d \in withdrawn
  /\ d \in jobs' <=> d \in jobs
  /\ d \in timers' <=> d \in timers

LEMMA CallKept ==
  ASSUME NEW d \in Calls, Where(d), Told(d), Keeps(d)
  PROVE  Where(d)' /\ Told(d)'
<1>1. Where(d)'
  BY DEF Where, Keeps
<1>2. Told(d)'
  BY DEF Told, Keeps
<1> QED BY <1>1, <1>2

\* A call that was presented stays so, whatever is done with what is queued.
Onwards ==
  /\ \A d \in Calls : call'[d] \in {"new", "staging", "present"} => call[d] \in {"new", "staging", "present"}
  /\ withdrawn \subseteq withdrawn'

LEMMA PostedKept ==
  ASSUME QueueTyped, Posted, Onwards, QueueTyped',
         NEW m \in Sh!Messages, call'[m.call] \notin {"new", "staging", "present"},
         m.kind = "close" => m.call \in withdrawn',
         \A i \in DOMAIN queue' : queue'[i] = m \/ \E j \in DOMAIN queue : queue'[i] = queue[j]
  PROVE  Posted'
<1> SUFFICES ASSUME NEW i \in DOMAIN queue'
             PROVE  /\ call'[queue'[i].call] \notin {"new", "staging", "present"}
                    /\ queue'[i].kind = "close" => queue'[i].call \in withdrawn'
  BY DEF Posted
<1>1. CASE queue'[i] = m
  BY <1>1
<1>2. ASSUME NEW j \in DOMAIN queue, queue'[i] = queue[j]
      PROVE  /\ call'[queue'[i].call] \notin {"new", "staging", "present"}
             /\ queue'[i].kind = "close" => queue'[i].call \in withdrawn'
  <2>1. queue[j] \in Sh!Messages
    BY DEF QueueTyped
  <2> QED BY <1>2, <2>1 DEF Posted, Onwards, Sh!Messages
<1> QED BY <1>1, <1>2

LEMMA PostedFewer ==
  ASSUME QueueTyped, Posted, Onwards,
         \A i \in DOMAIN queue' : \E j \in DOMAIN queue : queue'[i] = queue[j]
  PROVE  Posted'
<1> SUFFICES ASSUME NEW i \in DOMAIN queue', NEW j \in DOMAIN queue, queue'[i] = queue[j]
             PROVE  /\ call'[queue'[i].call] \notin {"new", "staging", "present"}
                    /\ queue'[i].kind = "close" => queue'[i].call \in withdrawn'
  BY DEF Posted
<1>1. queue[j] \in Sh!Messages
  BY DEF QueueTyped
<1> QED BY <1>1 DEF Posted, Onwards, Sh!Messages


\* Now each step, one lemma after the other: what it does to the call it is about
\* (<1>1), from which what the invariant says of that call follows (<1>7), the other
\* calls keeping what they have (<1>6).
LEMMA SheetStart ==
  ASSUME Sh!ShareSheetAssumption, SheetBase, NEW c \in Calls, Sh!Start(c)
  PROVE  SheetBase'
<1> USE DEF Sh!windowVars, Sh!screenVars, Sh!androidVars, Sh!Goes, Sh!Ends, Sh!nothingShown,
   Sh!Invalid, Sh!Unsupported
<1>0. \A d \in Calls : Where(d) /\ Told(d)
  BY DEF SheetBase
<1>1. /\ UNCHANGED <<system, withdrawn, jobs, timers, reply, sheet, did>>
      /\ call[c] = "new"
      /\ \/ call'[c] = "done" /\ outcome'[c] \in {"invalid", "unsupported", "busy"}
         \/ call'[c] = "staging" /\ outcome'[c] = outcome[c]
  BY <1>0 DEF Sh!Start, SheetBase, CallsTyped, ScreenTyped
<1>2. CallsTyped'
  <2>1. call'[c] \in Steps /\ outcome'[c] \in Sh!Answers \cup {None}
    BY <1>0, <1>1 DEF SheetBase, CallsTyped, ScreenTyped, Steps, Replies, Told, Sh!Requests,
       Sh!Answers, Sh!Outcomes, Sh!Errors
  <2>2. /\ call' \in [Calls -> Steps] /\ outcome' \in [Calls -> Sh!Answers \cup {None}]
        /\ withdrawn' \subseteq Calls /\ staged' \subseteq Calls
    BY <2>1 DEF Sh!Start, SheetBase, CallsTyped
  <2>3. system' \in Systems /\ busy' \in BOOLEAN /\ request' \in [Calls -> Sh!Requests \cup {None}]
    BY DEF Sh!Start, SheetBase, CallsTyped
  <2> QED BY <2>2, <2>3 DEF CallsTyped
<1>3. WindowsTyped' /\ ScreenTyped' /\ QueueTyped'
  BY DEF Sh!Start, SheetBase, CallsTyped, WindowsTyped, ScreenTyped, QueueTyped, Replies,
     Sh!ShareSheetAssumption, Sh!Requests, Sh!Answers, Sh!Outcomes, Sh!Errors
<1>4. OneGoing' /\ Activity'
  BY DEF Sh!Start, SheetBase, CallsTyped, OneGoing, Going, Activity
<1>5. Posted'
  <2>1. Onwards
    BY DEF Sh!Start, SheetBase, CallsTyped, Onwards
  <2>2. \A i \in DOMAIN queue' : \E j \in DOMAIN queue : queue'[i] = queue[j]
    BY DEF Sh!Start
  <2> QED BY <2>1, <2>2, PostedFewer DEF SheetBase
<1>6. ASSUME NEW d \in Calls, d # c PROVE Where(d)' /\ Told(d)'
  <2>1. Keeps(d)
    BY <1>6 DEF Sh!Start, SheetBase, CallsTyped, ScreenTyped, Keeps
  <2> QED BY <1>0, <2>1, CallKept
<1>7. Where(c)' /\ Told(c)'
  BY <1>0, <1>1 DEF SheetBase, ScreenTyped, Where, Told, Sh!ShareSheetAssumption, Sh!Requests,
     Sh!Answers, Sh!Outcomes, Sh!Errors
<1> QED BY <1>2, <1>3, <1>4, <1>5, <1>6, <1>7 DEF SheetBase


LEMMA SheetStage ==
  ASSUME Sh!ShareSheetAssumption, SheetBase, NEW c \in Calls, Sh!Stage(c)
  PROVE  SheetBase'
<1> USE DEF Sh!screenVars, Sh!androidVars, Sh!Goes, Sh!Ends, Sh!Returns, Sh!stage,
   Sh!resolve_window, Sh!Desktop, Sh!Windows, Sh!Mobile
<1>0. \A d \in Calls : Where(d) /\ Told(d)
  BY DEF SheetBase
<1>1. /\ UNCHANGED <<system, withdrawn, jobs, timers, reply, sheet, did>>
      /\ call[c] = "staging"
      /\ \/ call'[c] = "done" /\ outcome'[c] \in {"no_presenter", "not_found", "io"}
         \/ call'[c] = "present" /\ outcome'[c] = outcome[c]
  BY <1>0 DEF Sh!Stage, SheetBase, CallsTyped, ScreenTyped
<1>2. CallsTyped'
  <2>1. call'[c] \in Steps /\ outcome'[c] \in Sh!Answers \cup {None}
    BY <1>0, <1>1 DEF SheetBase, CallsTyped, ScreenTyped, Steps, Replies, Told, Sh!Requests,
       Sh!Answers, Sh!Outcomes, Sh!Errors
  <2>2. /\ call' \in [Calls -> Steps] /\ outcome' \in [Calls -> Sh!Answers \cup {None}]
        /\ withdrawn' \subseteq Calls /\ staged' \subseteq Calls
    BY <2>1 DEF Sh!Stage, SheetBase, CallsTyped
  <2>3. system' \in Systems /\ busy' \in BOOLEAN /\ request' \in [Calls -> Sh!Requests \cup {None}]
    BY DEF Sh!Stage, SheetBase, CallsTyped
  <2> QED BY <2>2, <2>3 DEF CallsTyped
<1>3. WindowsTyped' /\ ScreenTyped' /\ QueueTyped'
  BY DEF Sh!Stage, SheetBase, CallsTyped, WindowsTyped, ScreenTyped, QueueTyped, Replies,
     Sh!ShareSheetAssumption, Sh!Requests, Sh!Answers, Sh!Outcomes, Sh!Errors
<1>4. OneGoing' /\ Activity'
  BY DEF Sh!Stage, SheetBase, CallsTyped, OneGoing, Going, Activity
<1>5. Posted'
  <2>1. Onwards
    BY DEF Sh!Stage, SheetBase, CallsTyped, Onwards
  <2>2. \A i \in DOMAIN queue' : \E j \in DOMAIN queue : queue'[i] = queue[j]
    BY DEF Sh!Stage
  <2> QED BY <2>1, <2>2, PostedFewer DEF SheetBase
<1>6. ASSUME NEW d \in Calls, d # c PROVE Where(d)' /\ Told(d)'
  <2>1. Keeps(d)
    BY <1>6 DEF Sh!Stage, SheetBase, CallsTyped, ScreenTyped, Keeps
  <2> QED BY <1>0, <2>1, CallKept
<1>7. Where(c)' /\ Told(c)'
  BY <1>0, <1>1 DEF SheetBase, ScreenTyped, Where, Told, Sh!ShareSheetAssumption, Sh!Requests,
     Sh!Answers, Sh!Outcomes, Sh!Errors
<1> QED BY <1>2, <1>3, <1>4, <1>5, <1>6, <1>7 DEF SheetBase


LEMMA SheetCancel ==
  ASSUME Sh!ShareSheetAssumption, SheetBase, NEW c \in Calls, Sh!Cancel(c)
  PROVE  SheetBase'
<1> USE DEF Sh!windowVars, Sh!screenVars, Sh!androidVars, Sh!nothingShown
<1>0. \A d \in Calls : Where(d) /\ Told(d)
  BY DEF SheetBase
<1>1. /\ UNCHANGED <<system, call, outcome, jobs, timers, reply, sheet, did>>
      /\ call[c] \notin {"new", "done"} /\ withdrawn' = withdrawn \cup {c}
  BY <1>0 DEF Sh!Cancel, SheetBase, CallsTyped, ScreenTyped
<1>2. CallsTyped'
  <2>1. call'[c] \in Steps /\ outcome'[c] \in Sh!Answers \cup {None}
    BY <1>0, <1>1 DEF SheetBase, CallsTyped, ScreenTyped, Steps, Replies, Told, Sh!Requests,
       Sh!Answers, Sh!Outcomes, Sh!Errors
  <2>2. /\ call' \in [Calls -> Steps] /\ outcome' \in [Calls -> Sh!Answers \cup {None}]
        /\ withdrawn' \subseteq Calls /\ staged' \subseteq Calls
    BY <2>1 DEF Sh!Cancel, SheetBase, CallsTyped
  <2>3. system' \in Systems /\ busy' \in BOOLEAN /\ request' \in [Calls -> Sh!Requests \cup {None}]
    BY DEF Sh!Cancel, SheetBase, CallsTyped
  <2> QED BY <2>2, <2>3 DEF CallsTyped
<1>3. WindowsTyped' /\ ScreenTyped' /\ QueueTyped'
  BY DEF Sh!Cancel, SheetBase, CallsTyped, WindowsTyped, ScreenTyped, QueueTyped, Replies,
     Sh!ShareSheetAssumption, Sh!Requests, Sh!Answers, Sh!Outcomes, Sh!Errors
<1>4. OneGoing' /\ Activity'
  BY DEF Sh!Cancel, SheetBase, CallsTyped, OneGoing, Going, Activity
<1>5. Posted'
  <2>1. Onwards
    BY DEF Sh!Cancel, SheetBase, CallsTyped, Onwards
  <2>2. \A i \in DOMAIN queue' : \E j \in DOMAIN queue : queue'[i] = queue[j]
    BY DEF Sh!Cancel
  <2> QED BY <2>1, <2>2, PostedFewer DEF SheetBase
<1>6. ASSUME NEW d \in Calls, d # c PROVE Where(d)' /\ Told(d)'
  <2>1. Keeps(d)
    BY <1>6 DEF Sh!Cancel, SheetBase, CallsTyped, ScreenTyped, Keeps
  <2> QED BY <1>0, <2>1, CallKept
<1>7. Where(c)' /\ Told(c)'
  BY <1>0, <1>1 DEF SheetBase, ScreenTyped, Where, Told, Sh!ShareSheetAssumption, Sh!Requests,
     Sh!Answers, Sh!Outcomes, Sh!Errors
<1> QED BY <1>2, <1>3, <1>4, <1>5, <1>6, <1>7 DEF SheetBase


LEMMA SheetAwait ==
  ASSUME Sh!ShareSheetAssumption, SheetBase, NEW c \in Calls, Sh!Await(c)
  PROVE  SheetBase'
<1> USE DEF Sh!windowVars, Sh!androidVars, Sh!Ends, Sh!Returns, Sh!Received, Where, Told
<1>0. \A d \in Calls : Where(d) /\ Told(d)
  BY DEF SheetBase
<1>1. /\ UNCHANGED <<system, withdrawn, jobs, timers, sheet, did>>
      /\ call[c] \in {"waiting", "closing"} /\ system # "android" /\ reply[c] # None
      /\ call'[c] = "done" /\ outcome'[c] = (IF reply[c] = "closed" THEN "backend" ELSE reply[c])
      /\ reply'[c] = None /\ reply[c] # "result" /\ c \notin jobs
  BY <1>0 DEF Sh!Await, SheetBase, CallsTyped, ScreenTyped
<1>2. CallsTyped'
  <2>1. call'[c] \in Steps /\ outcome'[c] \in Sh!Answers \cup {None}
    BY <1>0, <1>1 DEF SheetBase, CallsTyped, ScreenTyped, Steps, Replies, Told, Sh!Requests,
       Sh!Answers, Sh!Outcomes, Sh!Errors
  <2>2. /\ call' \in [Calls -> Steps] /\ outcome' \in [Calls -> Sh!Answers \cup {None}]
        /\ withdrawn' \subseteq Calls /\ staged' \subseteq Calls
    BY <2>1 DEF Sh!Await, SheetBase, CallsTyped
  <2>3. system' \in Systems /\ busy' \in BOOLEAN /\ request' \in [Calls -> Sh!Requests \cup {None}]
    BY DEF Sh!Await, SheetBase, CallsTyped
  <2> QED BY <2>2, <2>3 DEF CallsTyped
<1>3. WindowsTyped' /\ ScreenTyped' /\ QueueTyped'
  BY DEF Sh!Await, SheetBase, CallsTyped, WindowsTyped, ScreenTyped, QueueTyped, Replies,
     Sh!ShareSheetAssumption, Sh!Requests, Sh!Answers, Sh!Outcomes, Sh!Errors
<1>4. OneGoing' /\ Activity'
  BY DEF Sh!Await, SheetBase, CallsTyped, OneGoing, Going, Activity
<1>5. Posted'
  <2>1. Onwards
    BY DEF Sh!Await, SheetBase, CallsTyped, Onwards
  <2>2. \A i \in DOMAIN queue' : \E j \in DOMAIN queue : queue'[i] = queue[j]
    BY DEF Sh!Await
  <2> QED BY <2>1, <2>2, PostedFewer DEF SheetBase
<1>6. ASSUME NEW d \in Calls, d # c PROVE Where(d)' /\ Told(d)'
  <2>1. Keeps(d)
    BY <1>6 DEF Sh!Await, SheetBase, CallsTyped, ScreenTyped, Keeps
  <2> QED BY <1>0, <2>1, CallKept
<1>7. Where(c)' /\ Told(c)'
  BY <1>0, <1>1 DEF SheetBase, ScreenTyped, Where, Told, Sh!ShareSheetAssumption, Sh!Requests,
     Sh!Answers, Sh!Outcomes, Sh!Errors
<1> QED BY <1>2, <1>3, <1>4, <1>5, <1>6, <1>7 DEF SheetBase


LEMMA SheetUntilCancelled ==
  ASSUME Sh!ShareSheetAssumption, SheetBase, NEW c \in Calls, Sh!until_cancelled(c)
  PROVE  SheetBase'
<1> USE DEF Sh!windowVars, Sh!screenVars, Sh!androidVars, Sh!Goes, Sh!nothingShown
<1>0. \A d \in Calls : Where(d) /\ Told(d)
  BY DEF SheetBase
<1>1. /\ UNCHANGED <<system, withdrawn, outcome, jobs, timers, reply, sheet, did>>
      /\ call[c] = "waiting" /\ c \in withdrawn /\ call'[c] = "cancelling" /\ system \in Sh!Desktop
  BY <1>0 DEF Sh!until_cancelled, SheetBase, CallsTyped, ScreenTyped
<1>2. CallsTyped'
  <2>1. call'[c] \in Steps /\ outcome'[c] \in Sh!Answers \cup {None}
    BY <1>0, <1>1 DEF SheetBase, CallsTyped, ScreenTyped, Steps, Replies, Told, Sh!Requests,
       Sh!Answers, Sh!Outcomes, Sh!Errors
  <2>2. /\ call' \in [Calls -> Steps] /\ outcome' \in [Calls -> Sh!Answers \cup {None}]
        /\ withdrawn' \subseteq Calls /\ staged' \subseteq Calls
    BY <2>1 DEF Sh!until_cancelled, SheetBase, CallsTyped
  <2>3. system' \in Systems /\ busy' \in BOOLEAN /\ request' \in [Calls -> Sh!Requests \cup {None}]
    BY DEF Sh!until_cancelled, SheetBase, CallsTyped
  <2> QED BY <2>2, <2>3 DEF CallsTyped
<1>3. WindowsTyped' /\ ScreenTyped' /\ QueueTyped'
  BY DEF Sh!until_cancelled, SheetBase, CallsTyped, WindowsTyped, ScreenTyped, QueueTyped,
     Replies, Sh!ShareSheetAssumption, Sh!Requests, Sh!Answers, Sh!Outcomes, Sh!Errors
<1>4. OneGoing' /\ Activity'
  BY DEF Sh!until_cancelled, SheetBase, CallsTyped, OneGoing, Going, Activity
<1>5. Posted'
  <2>1. Onwards
    BY DEF Sh!until_cancelled, SheetBase, CallsTyped, Onwards
  <2>2. \A i \in DOMAIN queue' : \E j \in DOMAIN queue : queue'[i] = queue[j]
    BY DEF Sh!until_cancelled
  <2> QED BY <2>1, <2>2, PostedFewer DEF SheetBase
<1>6. ASSUME NEW d \in Calls, d # c PROVE Where(d)' /\ Told(d)'
  <2>1. Keeps(d)
    BY <1>6 DEF Sh!until_cancelled, SheetBase, CallsTyped, ScreenTyped, Keeps
  <2> QED BY <1>0, <2>1, CallKept
<1>7. Where(c)' /\ Told(c)'
  BY <1>0, <1>1 DEF SheetBase, ScreenTyped, Where, Told, Sh!ShareSheetAssumption, Sh!Requests,
     Sh!Answers, Sh!Outcomes, Sh!Errors
<1> QED BY <1>2, <1>3, <1>4, <1>5, <1>6, <1>7 DEF SheetBase


LEMMA SheetEndCancelled ==
  ASSUME Sh!ShareSheetAssumption, SheetBase, NEW c \in Calls, Sh!EndCancelled(c)
  PROVE  SheetBase'
<1> USE DEF Sh!windowVars, Sh!androidVars, Sh!Ends, Sh!Returns, Sh!Received, Sh!Desktop,
   Sh!Windows, Sh!Mobile
<1>0. \A d \in Calls : Where(d) /\ Told(d)
  BY DEF SheetBase
<1>m. Sh!Close(c) \in Sh!Messages
  BY DEF Sh!Close, Sh!Messages
<1>q. /\ QueueTyped'
      /\ \A i \in DOMAIN queue' : queue'[i] = Sh!Close(c) \/ \E j \in DOMAIN queue : queue'[i] = queue[j]
  <2>1. CASE Sh!post(Sh!Close(c))
    <3>1. \A i \in DOMAIN queue' : i \in DOMAIN queue \/ i = Len(queue) + 1
      BY <1>m, <2>1, PostsAtEnd DEF SheetBase
    <3> QED BY <1>m, <2>1, <3>1, PostsAtEnd DEF SheetBase
  <2>2. CASE UNCHANGED queue
    BY <2>2 DEF SheetBase, QueueTyped
  <2> QED BY <2>1, <2>2 DEF Sh!EndCancelled
<1>1. /\ UNCHANGED <<system, withdrawn, timers, sheet, did>>
      /\ call[c] = "cancelling" /\ call'[c] = "done" /\ outcome'[c] = "dismissed" /\ reply'[c] = None
      /\ IF system = "macos" THEN jobs' = jobs ELSE jobs' = jobs \ {c}
  BY <1>q, <1>0 DEF Sh!EndCancelled, SheetBase, CallsTyped, ScreenTyped
<1>2. CallsTyped'
  <2>1. call'[c] \in Steps /\ outcome'[c] \in Sh!Answers \cup {None}
    BY <1>q, <1>0, <1>1 DEF SheetBase, CallsTyped, ScreenTyped, Steps, Replies, Told, Sh!Requests,
       Sh!Answers, Sh!Outcomes, Sh!Errors
  <2>2. /\ call' \in [Calls -> Steps] /\ outcome' \in [Calls -> Sh!Answers \cup {None}]
        /\ withdrawn' \subseteq Calls /\ staged' \subseteq Calls
    BY <1>q, <2>1 DEF Sh!EndCancelled, SheetBase, CallsTyped
  <2>3. system' \in Systems /\ busy' \in BOOLEAN /\ request' \in [Calls -> Sh!Requests \cup {None}]
    BY <1>q DEF Sh!EndCancelled, SheetBase, CallsTyped
  <2> QED BY <2>2, <2>3 DEF CallsTyped
<1>3. WindowsTyped' /\ ScreenTyped' /\ QueueTyped'
  BY <1>q DEF Sh!EndCancelled, SheetBase, CallsTyped, WindowsTyped, ScreenTyped, QueueTyped,
     Replies, Sh!ShareSheetAssumption, Sh!Requests, Sh!Answers, Sh!Outcomes, Sh!Errors
<1>4. OneGoing' /\ Activity'
  BY <1>q DEF Sh!EndCancelled, SheetBase, CallsTyped, OneGoing, Going, Activity
<1>5. Posted'
  <2>1. Onwards
    BY <1>q DEF Sh!EndCancelled, SheetBase, CallsTyped, Onwards
  <2>2. /\ call'[c] \notin {"new", "staging", "present"} /\ Sh!Close(c).call = c
        /\ Sh!Close(c).kind = "close" => c \in withdrawn'
    BY <1>0, <1>1 DEF Where, Sh!Close
  <2> QED BY <1>m, <1>q, <2>1, <2>2, PostedKept DEF SheetBase
<1>6. ASSUME NEW d \in Calls, d # c PROVE Where(d)' /\ Told(d)'
  <2>1. Keeps(d)
    BY <1>q, <1>6 DEF Sh!EndCancelled, SheetBase, CallsTyped, ScreenTyped, Keeps
  <2> QED BY <1>0, <2>1, CallKept
<1>7. Where(c)' /\ Told(c)'
  BY <1>q, <1>0, <1>1 DEF SheetBase, ScreenTyped, Where, Told, Sh!ShareSheetAssumption,
     Sh!Requests, Sh!Answers, Sh!Outcomes, Sh!Errors
<1> QED BY <1>2, <1>3, <1>4, <1>5, <1>6, <1>7 DEF SheetBase


LEMMA SheetPresentWindows ==
  ASSUME Sh!ShareSheetAssumption, SheetBase, NEW c \in Calls, Sh!present_windows(c)
  PROVE  SheetBase'
<1> USE DEF Sh!windowVars, Sh!screenVars, Sh!androidVars, Sh!Goes, Sh!Ends, Sh!Returns,
   Sh!presents, Sh!prepare, Sh!Windows
<1>0. \A d \in Calls : Where(d) /\ Told(d)
  BY DEF SheetBase
<1>m. Sh!Show(c) \in Sh!Messages
  BY DEF Sh!Show, Sh!Messages
<1>q. /\ QueueTyped'
      /\ \A i \in DOMAIN queue' : queue'[i] = Sh!Show(c) \/ \E j \in DOMAIN queue : queue'[i] = queue[j]
  <2>1. CASE Sh!post(Sh!Show(c))
    <3>1. \A i \in DOMAIN queue' : i \in DOMAIN queue \/ i = Len(queue) + 1
      BY <1>m, <2>1, PostsAtEnd DEF SheetBase
    <3> QED BY <1>m, <2>1, <3>1, PostsAtEnd DEF SheetBase
  <2>2. CASE UNCHANGED queue
    BY <2>2 DEF SheetBase, QueueTyped
  <2> QED BY <2>1, <2>2 DEF Sh!present_windows
<1>1. /\ UNCHANGED <<system, withdrawn, timers, reply, sheet, did>>
      /\ call[c] = "present" /\ system \in Sh!Windows
      /\ \/ call'[c] = "done" /\ outcome'[c] \in {"no_presenter", "invalid", "backend"} /\ jobs' = jobs
         \/ call'[c] = "waiting" /\ outcome'[c] = outcome[c] /\ jobs' = jobs \cup {c}
  BY <1>q, <1>0 DEF Sh!present_windows, SheetBase, CallsTyped, ScreenTyped
<1>2. CallsTyped'
  <2>1. call'[c] \in Steps /\ outcome'[c] \in Sh!Answers \cup {None}
    BY <1>q, <1>0, <1>1 DEF SheetBase, CallsTyped, ScreenTyped, Steps, Replies, Told, Sh!Requests,
       Sh!Answers, Sh!Outcomes, Sh!Errors
  <2>2. /\ call' \in [Calls -> Steps] /\ outcome' \in [Calls -> Sh!Answers \cup {None}]
        /\ withdrawn' \subseteq Calls /\ staged' \subseteq Calls
    BY <1>q, <2>1 DEF Sh!present_windows, SheetBase, CallsTyped
  <2>3. system' \in Systems /\ busy' \in BOOLEAN /\ request' \in [Calls -> Sh!Requests \cup {None}]
    BY <1>q DEF Sh!present_windows, SheetBase, CallsTyped
  <2> QED BY <2>2, <2>3 DEF CallsTyped
<1>3. WindowsTyped' /\ ScreenTyped' /\ QueueTyped'
  BY <1>q DEF Sh!present_windows, SheetBase, CallsTyped, WindowsTyped, ScreenTyped, QueueTyped,
     Replies, Sh!ShareSheetAssumption, Sh!Requests, Sh!Answers, Sh!Outcomes, Sh!Errors
<1>4. OneGoing' /\ Activity'
  BY <1>q DEF Sh!present_windows, SheetBase, CallsTyped, OneGoing, Going, Activity
<1>5. Posted'
  <2>1. Onwards
    BY <1>q DEF Sh!present_windows, SheetBase, CallsTyped, Onwards
  <2>2. /\ call'[c] \notin {"new", "staging", "present"} /\ Sh!Show(c).call = c
        /\ Sh!Show(c).kind = "close" => c \in withdrawn'
    BY <1>0, <1>1 DEF Where, Sh!Show
  <2> QED BY <1>m, <1>q, <2>1, <2>2, PostedKept DEF SheetBase
<1>6. ASSUME NEW d \in Calls, d # c PROVE Where(d)' /\ Told(d)'
  <2>1. Keeps(d)
    BY <1>q, <1>6 DEF Sh!present_windows, SheetBase, CallsTyped, ScreenTyped, Keeps
  <2> QED BY <1>0, <2>1, CallKept
<1>7. Where(c)' /\ Told(c)'
  BY <1>q, <1>0, <1>1 DEF SheetBase, ScreenTyped, Where, Told, Sh!ShareSheetAssumption,
     Sh!Requests, Sh!Answers, Sh!Outcomes, Sh!Errors
<1> QED BY <1>2, <1>3, <1>4, <1>5, <1>6, <1>7 DEF SheetBase


LEMMA SheetSubclass ==
  ASSUME Sh!ShareSheetAssumption, SheetBase, Sh!subclass_proc
  PROVE  SheetBase'
<1> USE DEF Sh!callVars, Sh!windowVars, Sh!androidVars, Sh!Sends, Sh!Screen, Sh!show_windows, Where
<1>0. \A d \in Calls : Where(d) /\ Told(d)
  BY DEF SheetBase
<1>q. QueueTyped' /\ \A i \in DOMAIN queue' : \E j \in DOMAIN queue : queue'[i] = queue[j]
  BY TakesHead DEF SheetBase, Sh!subclass_proc
<1>h. /\ Head(queue) \in Sh!Messages /\ Head(queue).call \in Calls /\ system \in Sh!Windows
      /\ 1 \in DOMAIN queue /\ queue[1] = Head(queue) /\ Head(queue).kind = "show"
  BY TakesHead DEF SheetBase, Sh!subclass_proc
<1>x. PICK x \in Calls : x = Head(queue).call
  BY <1>q, <1>h DEF Sh!subclass_proc, SheetBase, ScreenTyped
<1>1. /\ UNCHANGED <<system, withdrawn, call, outcome, timers, did>>
      /\ \/ UNCHANGED <<jobs, reply, sheet>>
         \/ /\ x \in jobs /\ jobs' = jobs \ {x} /\ call[x] \in {"waiting", "cancelling"}
            /\ \/ reply'[x] \in {"backend", "closed"} /\ UNCHANGED sheet
               \/ sheet'[x] = "up" /\ (UNCHANGED reply \/ (system = "windows10" /\ reply'[x] = "unknown"))
  BY <1>q, <1>h, <1>x, <1>0 DEF Sh!subclass_proc, SheetBase, CallsTyped, ScreenTyped
<1>2. CallsTyped'
  <2>1. call'[x] \in Steps /\ outcome'[x] \in Sh!Answers \cup {None}
    BY <1>q, <1>h, <1>x, <1>0, <1>1 DEF SheetBase, CallsTyped, ScreenTyped, Steps, Replies, Told,
       Sh!Requests, Sh!Answers, Sh!Outcomes, Sh!Errors
  <2>2. /\ call' \in [Calls -> Steps] /\ outcome' \in [Calls -> Sh!Answers \cup {None}]
        /\ withdrawn' \subseteq Calls /\ staged' \subseteq Calls
    BY <1>q, <1>h, <1>x, <2>1 DEF Sh!subclass_proc, SheetBase, CallsTyped
  <2>3. system' \in Systems /\ busy' \in BOOLEAN /\ request' \in [Calls -> Sh!Requests \cup {None}]
    BY <1>q, <1>h, <1>x DEF Sh!subclass_proc, SheetBase, CallsTyped
  <2> QED BY <2>2, <2>3 DEF CallsTyped
<1>3. WindowsTyped' /\ ScreenTyped' /\ QueueTyped'
  <2>1. WindowsTyped'
    BY <1>q, <1>h, <1>x DEF Sh!subclass_proc, SheetBase, WindowsTyped
  <2>2. ScreenTyped'
    BY <1>q, <1>h, <1>x DEF Sh!subclass_proc, SheetBase, CallsTyped, ScreenTyped, Replies,
       Sh!Requests, Sh!Answers, Sh!Outcomes, Sh!Errors
  <2> QED BY <1>q, <1>h, <1>x, <2>1, <2>2 DEF Sh!subclass_proc, SheetBase, QueueTyped
<1>4. OneGoing' /\ Activity'
  BY <1>q, <1>h, <1>x DEF Sh!subclass_proc, SheetBase, CallsTyped, OneGoing, Going, Activity
<1>5. Posted'
  <2>1. Onwards
    BY <1>q, <1>h, <1>x DEF Sh!subclass_proc, SheetBase, CallsTyped, Onwards
  <2>2. \A i \in DOMAIN queue' : \E j \in DOMAIN queue : queue'[i] = queue[j]
    BY <1>q, <1>h, <1>x DEF Sh!subclass_proc
  <2> QED BY <2>1, <2>2, PostedFewer DEF SheetBase
<1>6. ASSUME NEW d \in Calls, d # x PROVE Where(d)' /\ Told(d)'
  <2>1. Keeps(d)
    BY <1>q, <1>h, <1>x, <1>6 DEF Sh!subclass_proc, SheetBase, CallsTyped, ScreenTyped, Keeps
  <2> QED BY <1>0, <2>1, CallKept
<1>7. Where(x)' /\ Told(x)'
  BY <1>q, <1>h, <1>x, <1>0, <1>1 DEF SheetBase, ScreenTyped, Where, Told,
     Sh!ShareSheetAssumption, Sh!Requests, Sh!Answers, Sh!Outcomes, Sh!Errors
<1> QED BY <1>2, <1>3, <1>4, <1>5, <1>6, <1>7 DEF SheetBase


LEMMA SheetCompleted ==
  ASSUME Sh!ShareSheetAssumption, SheetBase, NEW c \in Calls, Sh!ShareCompleted(c)
  PROVE  SheetBase'
<1> USE DEF Sh!callVars, Sh!windowVars, Sh!androidVars, Sh!Sends, Sh!Screen, Sh!UserDid,
   Sh!elsewhere, Sh!Windows
<1>0. \A d \in Calls : Where(d) /\ Told(d)
  BY DEF SheetBase
<1>1. /\ UNCHANGED <<system, withdrawn, call, outcome, jobs, timers>>
      /\ system \in Sh!Windows /\ sheet[c] = "up" /\ sheet'[c] = "left" /\ did'[c] = did[c] \cup {"shared"}
      /\ reply'[c] = "shared" \/ (UNCHANGED reply /\ call[c] = "done")
  BY <1>0 DEF Sh!ShareCompleted, SheetBase, CallsTyped, ScreenTyped
<1>2. CallsTyped'
  <2>1. call'[c] \in Steps /\ outcome'[c] \in Sh!Answers \cup {None}
    BY <1>0, <1>1 DEF SheetBase, CallsTyped, ScreenTyped, Steps, Replies, Told, Sh!Requests,
       Sh!Answers, Sh!Outcomes, Sh!Errors
  <2>2. /\ call' \in [Calls -> Steps] /\ outcome' \in [Calls -> Sh!Answers \cup {None}]
        /\ withdrawn' \subseteq Calls /\ staged' \subseteq Calls
    BY <2>1 DEF Sh!ShareCompleted, SheetBase, CallsTyped
  <2>3. system' \in Systems /\ busy' \in BOOLEAN /\ request' \in [Calls -> Sh!Requests \cup {None}]
    BY DEF Sh!ShareCompleted, SheetBase, CallsTyped
  <2> QED BY <2>2, <2>3 DEF CallsTyped
<1>3. WindowsTyped' /\ ScreenTyped' /\ QueueTyped'
  BY DEF Sh!ShareCompleted, SheetBase, CallsTyped, WindowsTyped, ScreenTyped, QueueTyped, Replies,
     Sh!ShareSheetAssumption, Sh!Requests, Sh!Answers, Sh!Outcomes, Sh!Errors
<1>4. OneGoing' /\ Activity'
  BY DEF Sh!ShareCompleted, SheetBase, CallsTyped, OneGoing, Going, Activity
<1>5. Posted'
  <2>1. Onwards
    BY DEF Sh!ShareCompleted, SheetBase, CallsTyped, Onwards
  <2>2. \A i \in DOMAIN queue' : \E j \in DOMAIN queue : queue'[i] = queue[j]
    BY DEF Sh!ShareCompleted
  <2> QED BY <2>1, <2>2, PostedFewer DEF SheetBase
<1>6. ASSUME NEW d \in Calls, d # c PROVE Where(d)' /\ Told(d)'
  <2>1. Keeps(d)
    BY <1>6 DEF Sh!ShareCompleted, SheetBase, CallsTyped, ScreenTyped, Keeps
  <2> QED BY <1>0, <2>1, CallKept
<1>7. Where(c)' /\ Told(c)'
  BY <1>0, <1>1 DEF SheetBase, ScreenTyped, Where, Told, Sh!ShareSheetAssumption, Sh!Requests,
     Sh!Answers, Sh!Outcomes, Sh!Errors
<1> QED BY <1>2, <1>3, <1>4, <1>5, <1>6, <1>7 DEF SheetBase


LEMMA SheetCanceled ==
  ASSUME Sh!ShareSheetAssumption, SheetBase, NEW c \in Calls, Sh!ShareCanceled(c)
  PROVE  SheetBase'
<1> USE DEF Sh!callVars, Sh!windowVars, Sh!androidVars, Sh!Sends, Sh!Screen, Sh!UserDid,
   Sh!elsewhere, Sh!Windows
<1>0. \A d \in Calls : Where(d) /\ Told(d)
  BY DEF SheetBase
<1>1. /\ UNCHANGED <<system, withdrawn, call, outcome, jobs, timers>>
      /\ system \in Sh!Windows /\ sheet[c] = "up" /\ sheet'[c] = "left" /\ did'[c] = did[c] \cup {"left"}
      /\ reply'[c] = "dismissed" \/ UNCHANGED reply
  BY <1>0 DEF Sh!ShareCanceled, SheetBase, CallsTyped, ScreenTyped
<1>2. CallsTyped'
  <2>1. call'[c] \in Steps /\ outcome'[c] \in Sh!Answers \cup {None}
    BY <1>0, <1>1 DEF SheetBase, CallsTyped, ScreenTyped, Steps, Replies, Told, Sh!Requests,
       Sh!Answers, Sh!Outcomes, Sh!Errors
  <2>2. /\ call' \in [Calls -> Steps] /\ outcome' \in [Calls -> Sh!Answers \cup {None}]
        /\ withdrawn' \subseteq Calls /\ staged' \subseteq Calls
    BY <2>1 DEF Sh!ShareCanceled, SheetBase, CallsTyped
  <2>3. system' \in Systems /\ busy' \in BOOLEAN /\ request' \in [Calls -> Sh!Requests \cup {None}]
    BY DEF Sh!ShareCanceled, SheetBase, CallsTyped
  <2> QED BY <2>2, <2>3 DEF CallsTyped
<1>3. WindowsTyped' /\ ScreenTyped' /\ QueueTyped'
  BY DEF Sh!ShareCanceled, SheetBase, CallsTyped, WindowsTyped, ScreenTyped, QueueTyped, Replies,
     Sh!ShareSheetAssumption, Sh!Requests, Sh!Answers, Sh!Outcomes, Sh!Errors
<1>4. OneGoing' /\ Activity'
  BY DEF Sh!ShareCanceled, SheetBase, CallsTyped, OneGoing, Going, Activity
<1>5. Posted'
  <2>1. Onwards
    BY DEF Sh!ShareCanceled, SheetBase, CallsTyped, Onwards
  <2>2. \A i \in DOMAIN queue' : \E j \in DOMAIN queue : queue'[i] = queue[j]
    BY DEF Sh!ShareCanceled
  <2> QED BY <2>1, <2>2, PostedFewer DEF SheetBase
<1>6. ASSUME NEW d \in Calls, d # c PROVE Where(d)' /\ Told(d)'
  <2>1. Keeps(d)
    BY <1>6 DEF Sh!ShareCanceled, SheetBase, CallsTyped, ScreenTyped, Keeps
  <2> QED BY <1>0, <2>1, CallKept
<1>7. Where(c)' /\ Told(c)'
  BY <1>0, <1>1 DEF SheetBase, ScreenTyped, Where, Told, Sh!ShareSheetAssumption, Sh!Requests,
     Sh!Answers, Sh!Outcomes, Sh!Errors
<1> QED BY <1>2, <1>3, <1>4, <1>5, <1>6, <1>7 DEF SheetBase


LEMMA SheetPresentMacos ==
  ASSUME Sh!ShareSheetAssumption, SheetBase, NEW c \in Calls, Sh!present_macos(c)
  PROVE  SheetBase'
<1> USE DEF Sh!windowVars, Sh!screenVars, Sh!androidVars, Sh!Goes, Sh!presents
<1>0. \A d \in Calls : Where(d) /\ Told(d)
  BY DEF SheetBase
<1>m. Sh!Show(c) \in Sh!Messages
  BY DEF Sh!Show, Sh!Messages
<1>q. /\ QueueTyped'
      /\ \A i \in DOMAIN queue' : queue'[i] = Sh!Show(c) \/ \E j \in DOMAIN queue : queue'[i] = queue[j]
  <2>1. CASE Sh!post(Sh!Show(c))
    <3>1. \A i \in DOMAIN queue' : i \in DOMAIN queue \/ i = Len(queue) + 1
      BY <1>m, <2>1, PostsAtEnd DEF SheetBase
    <3> QED BY <1>m, <2>1, <3>1, PostsAtEnd DEF SheetBase
  <2>2. CASE UNCHANGED queue
    BY <2>2 DEF SheetBase, QueueTyped
  <2> QED BY <2>1, <2>2 DEF Sh!present_macos
<1>1. /\ UNCHANGED <<system, withdrawn, outcome, jobs, timers, reply, sheet, did>>
      /\ call[c] = "present" /\ call'[c] = "waiting" /\ system = "macos"
  BY <1>q, <1>0 DEF Sh!present_macos, SheetBase, CallsTyped, ScreenTyped
<1>2. CallsTyped'
  <2>1. call'[c] \in Steps /\ outcome'[c] \in Sh!Answers \cup {None}
    BY <1>q, <1>0, <1>1 DEF SheetBase, CallsTyped, ScreenTyped, Steps, Replies, Told, Sh!Requests,
       Sh!Answers, Sh!Outcomes, Sh!Errors
  <2>2. /\ call' \in [Calls -> Steps] /\ outcome' \in [Calls -> Sh!Answers \cup {None}]
        /\ withdrawn' \subseteq Calls /\ staged' \subseteq Calls
    BY <1>q, <2>1 DEF Sh!present_macos, SheetBase, CallsTyped
  <2>3. system' \in Systems /\ busy' \in BOOLEAN /\ request' \in [Calls -> Sh!Requests \cup {None}]
    BY <1>q DEF Sh!present_macos, SheetBase, CallsTyped
  <2> QED BY <2>2, <2>3 DEF CallsTyped
<1>3. WindowsTyped' /\ ScreenTyped' /\ QueueTyped'
  BY <1>q DEF Sh!present_macos, SheetBase, CallsTyped, WindowsTyped, ScreenTyped, QueueTyped,
     Replies, Sh!ShareSheetAssumption, Sh!Requests, Sh!Answers, Sh!Outcomes, Sh!Errors
<1>4. OneGoing' /\ Activity'
  BY <1>q DEF Sh!present_macos, SheetBase, CallsTyped, OneGoing, Going, Activity
<1>5. Posted'
  <2>1. Onwards
    BY <1>q DEF Sh!present_macos, SheetBase, CallsTyped, Onwards
  <2>2. /\ call'[c] \notin {"new", "staging", "present"} /\ Sh!Show(c).call = c
        /\ Sh!Show(c).kind = "close" => c \in withdrawn'
    BY <1>0, <1>1 DEF Where, Sh!Show
  <2> QED BY <1>m, <1>q, <2>1, <2>2, PostedKept DEF SheetBase
<1>6. ASSUME NEW d \in Calls, d # c PROVE Where(d)' /\ Told(d)'
  <2>1. Keeps(d)
    BY <1>q, <1>6 DEF Sh!present_macos, SheetBase, CallsTyped, ScreenTyped, Keeps
  <2> QED BY <1>0, <2>1, CallKept
<1>7. Where(c)' /\ Told(c)'
  BY <1>q, <1>0, <1>1 DEF SheetBase, ScreenTyped, Where, Told, Sh!ShareSheetAssumption,
     Sh!Requests, Sh!Answers, Sh!Outcomes, Sh!Errors
<1> QED BY <1>2, <1>3, <1>4, <1>5, <1>6, <1>7 DEF SheetBase


LEMMA SheetShowMacos ==
  ASSUME Sh!ShareSheetAssumption, SheetBase, Sh!show_macos
  PROVE  SheetBase'
<1> USE DEF Sh!callVars, Sh!windowVars, Sh!androidVars, Sh!Sends, Sh!Screen, Sh!build_items_fails,
   Where, Posted, Sh!Windows
<1>0. \A d \in Calls : Where(d) /\ Told(d)
  BY DEF SheetBase
<1>q. QueueTyped' /\ \A i \in DOMAIN queue' : \E j \in DOMAIN queue : queue'[i] = queue[j]
  BY TakesHead DEF SheetBase, Sh!show_macos
<1>h. /\ Head(queue) \in Sh!Messages /\ Head(queue).call \in Calls /\ system \in {"macos"}
      /\ 1 \in DOMAIN queue /\ queue[1] = Head(queue) /\ Head(queue).kind = "show"
  BY TakesHead DEF SheetBase, Sh!show_macos
<1>x. PICK x \in Calls : x = Head(queue).call
  BY <1>q, <1>h DEF Sh!show_macos, SheetBase, ScreenTyped
<1>1. /\ UNCHANGED <<system, withdrawn, call, outcome, jobs, timers, did>>
      /\ call[x] \notin {"new", "staging", "present"} /\ x \notin jobs
      /\ \/ reply'[x] \in {"invalid", "not_found"} /\ UNCHANGED sheet
         \/ UNCHANGED reply /\ UNCHANGED sheet
         \/ UNCHANGED reply /\ sheet'[x] = "up"
  BY <1>q, <1>h, <1>x, <1>0 DEF Sh!show_macos, SheetBase, CallsTyped, ScreenTyped
<1>2. CallsTyped'
  <2>1. call'[x] \in Steps /\ outcome'[x] \in Sh!Answers \cup {None}
    BY <1>q, <1>h, <1>x, <1>0, <1>1 DEF SheetBase, CallsTyped, ScreenTyped, Steps, Replies, Told,
       Sh!Requests, Sh!Answers, Sh!Outcomes, Sh!Errors
  <2>2. /\ call' \in [Calls -> Steps] /\ outcome' \in [Calls -> Sh!Answers \cup {None}]
        /\ withdrawn' \subseteq Calls /\ staged' \subseteq Calls
    BY <1>q, <1>h, <1>x, <2>1 DEF Sh!show_macos, SheetBase, CallsTyped
  <2>3. system' \in Systems /\ busy' \in BOOLEAN /\ request' \in [Calls -> Sh!Requests \cup {None}]
    BY <1>q, <1>h, <1>x DEF Sh!show_macos, SheetBase, CallsTyped
  <2> QED BY <2>2, <2>3 DEF CallsTyped
<1>3. WindowsTyped' /\ ScreenTyped' /\ QueueTyped'
  BY <1>q, <1>h, <1>x DEF Sh!show_macos, SheetBase, CallsTyped, WindowsTyped, ScreenTyped,
     QueueTyped, Replies, Sh!ShareSheetAssumption, Sh!Requests, Sh!Answers, Sh!Outcomes, Sh!Errors
<1>4. OneGoing' /\ Activity'
  BY <1>q, <1>h, <1>x DEF Sh!show_macos, SheetBase, CallsTyped, OneGoing, Going, Activity
<1>5. Posted'
  <2>1. Onwards
    BY <1>q, <1>h, <1>x DEF Sh!show_macos, SheetBase, CallsTyped, Onwards
  <2>2. \A i \in DOMAIN queue' : \E j \in DOMAIN queue : queue'[i] = queue[j]
    BY <1>q, <1>h, <1>x DEF Sh!show_macos
  <2> QED BY <2>1, <2>2, PostedFewer DEF SheetBase
<1>6. ASSUME NEW d \in Calls, d # x PROVE Where(d)' /\ Told(d)'
  <2>1. Keeps(d)
    BY <1>q, <1>h, <1>x, <1>6 DEF Sh!show_macos, SheetBase, CallsTyped, ScreenTyped, Keeps
  <2> QED BY <1>0, <2>1, CallKept
<1>7. Where(x)' /\ Told(x)'
  BY <1>q, <1>h, <1>x, <1>0, <1>1 DEF SheetBase, ScreenTyped, Where, Told,
     Sh!ShareSheetAssumption, Sh!Requests, Sh!Answers, Sh!Outcomes, Sh!Errors
<1> QED BY <1>2, <1>3, <1>4, <1>5, <1>6, <1>7 DEF SheetBase


\* The picker that macOS closes is that of the call that asked for it.
LEMMA ClosesOwn ==
  ASSUME SheetBase, MacSheets, Sh!HandlesOf({"macos"}, "close"), active # None, sheet[active] = "up"
  PROVE  active = Head(queue).call
<1>1. /\ system = "macos" /\ active \in Calls /\ 1 \in DOMAIN queue /\ Head(queue) = queue[1]
      /\ DOMAIN queue \subseteq Nat
  BY TakesHead DEF SheetBase, ScreenTyped
<1>2. UpOnMac(active)
  BY <1>1 DEF MacSheets
<1>3. ~ClosedWithin(active, 0, 1)
  BY <1>1 DEF ClosedWithin
<1> QED BY <1>1, <1>2, <1>3 DEF UpOnMac


LEMMA SheetCloseMacos ==
  ASSUME Sh!ShareSheetAssumption, SheetBase, MacSheets, Sh!close_macos
  PROVE  SheetBase'
<1> USE DEF Sh!callVars, Sh!windowVars, Sh!androidVars, Sh!Sends, Sh!Screen, Sh!finish, Where,
   Posted, Sh!Windows
<1>0. \A d \in Calls : Where(d) /\ Told(d)
  BY DEF SheetBase
<1>q. QueueTyped' /\ \A i \in DOMAIN queue' : \E j \in DOMAIN queue : queue'[i] = queue[j]
  BY TakesHead DEF SheetBase, Sh!close_macos
<1>h. /\ Head(queue) \in Sh!Messages /\ Head(queue).call \in Calls /\ system \in {"macos"}
      /\ 1 \in DOMAIN queue /\ queue[1] = Head(queue) /\ Head(queue).kind = "close"
  BY TakesHead DEF SheetBase, Sh!close_macos
<1>x. PICK x \in Calls : x = Head(queue).call
  BY <1>q, <1>h DEF Sh!close_macos, SheetBase, ScreenTyped
<1>o. active # None /\ sheet[active] = "up" => active = x
  BY <1>x, ClosesOwn DEF Sh!close_macos
<1>1. /\ UNCHANGED <<system, withdrawn, call, outcome, jobs, timers, did>>
      /\ call[x] \notin {"new", "staging", "present"} /\ x \notin jobs /\ x \in withdrawn
      /\ UNCHANGED reply \/ reply'[x] = "dismissed"
      /\ UNCHANGED sheet \/ sheet'[x] = "left"
  BY <1>q, <1>h, <1>x, <1>o, <1>0 DEF Sh!close_macos, SheetBase, CallsTyped, ScreenTyped
<1>2. CallsTyped'
  <2>1. call'[x] \in Steps /\ outcome'[x] \in Sh!Answers \cup {None}
    BY <1>q, <1>h, <1>x, <1>o, <1>0, <1>1 DEF SheetBase, CallsTyped, ScreenTyped, Steps, Replies,
       Told, Sh!Requests, Sh!Answers, Sh!Outcomes, Sh!Errors
  <2>2. /\ call' \in [Calls -> Steps] /\ outcome' \in [Calls -> Sh!Answers \cup {None}]
        /\ withdrawn' \subseteq Calls /\ staged' \subseteq Calls
    BY <1>q, <1>h, <1>x, <1>o, <2>1 DEF Sh!close_macos, SheetBase, CallsTyped
  <2>3. system' \in Systems /\ busy' \in BOOLEAN /\ request' \in [Calls -> Sh!Requests \cup {None}]
    BY <1>q, <1>h, <1>x, <1>o DEF Sh!close_macos, SheetBase, CallsTyped
  <2> QED BY <2>2, <2>3 DEF CallsTyped
<1>3. WindowsTyped' /\ ScreenTyped' /\ QueueTyped'
  BY <1>q, <1>h, <1>x, <1>o DEF Sh!close_macos, SheetBase, CallsTyped, WindowsTyped, ScreenTyped,
     QueueTyped, Replies, Sh!ShareSheetAssumption, Sh!Requests, Sh!Answers, Sh!Outcomes, Sh!Errors
<1>4. OneGoing' /\ Activity'
  BY <1>q, <1>h, <1>x, <1>o DEF Sh!close_macos, SheetBase, CallsTyped, OneGoing, Going, Activity
<1>5. Posted'
  <2>1. Onwards
    BY <1>q, <1>h, <1>x, <1>o DEF Sh!close_macos, SheetBase, CallsTyped, Onwards
  <2>2. \A i \in DOMAIN queue' : \E j \in DOMAIN queue : queue'[i] = queue[j]
    BY <1>q, <1>h, <1>x, <1>o DEF Sh!close_macos
  <2> QED BY <2>1, <2>2, PostedFewer DEF SheetBase
<1>6. ASSUME NEW d \in Calls, d # x PROVE Where(d)' /\ Told(d)'
  <2>1. Keeps(d)
    BY <1>q, <1>h, <1>x, <1>o, <1>6 DEF Sh!close_macos, SheetBase, CallsTyped, ScreenTyped, Keeps
  <2> QED BY <1>0, <2>1, CallKept
<1>7. Where(x)' /\ Told(x)'
  BY <1>q, <1>h, <1>x, <1>o, <1>0, <1>1 DEF SheetBase, ScreenTyped, Where, Told,
     Sh!ShareSheetAssumption, Sh!Requests, Sh!Answers, Sh!Outcomes, Sh!Errors
<1> QED BY <1>2, <1>3, <1>4, <1>5, <1>6, <1>7 DEF SheetBase


LEMMA SheetChoose ==
  ASSUME Sh!ShareSheetAssumption, SheetBase, NEW c \in Calls, Sh!did_choose(c)
  PROVE  SheetBase'
<1> USE DEF Sh!callVars, Sh!windowVars, Sh!androidVars, Sh!Sends, Sh!Screen, Sh!UserDid,
   Sh!elsewhere, Sh!finish, Sh!Windows
<1>0. \A d \in Calls : Where(d) /\ Told(d)
  BY DEF SheetBase
<1>1. /\ UNCHANGED <<system, withdrawn, call, outcome, jobs>>
      /\ system = "macos" /\ sheet[c] = "up"
      /\ \/ /\ did'[c] = did[c] \cup {"chosen"} /\ sheet'[c] = "chosen"
            /\ timers' = timers \cup {c} /\ UNCHANGED reply
         \/ /\ did'[c] = did[c] \cup {"left"} /\ sheet'[c] = "left" /\ UNCHANGED timers
            /\ UNCHANGED reply \/ reply'[c] = "dismissed"
  BY <1>0 DEF Sh!did_choose, SheetBase, CallsTyped, ScreenTyped
<1>2. CallsTyped'
  <2>1. call'[c] \in Steps /\ outcome'[c] \in Sh!Answers \cup {None}
    BY <1>0, <1>1 DEF SheetBase, CallsTyped, ScreenTyped, Steps, Replies, Told, Sh!Requests,
       Sh!Answers, Sh!Outcomes, Sh!Errors
  <2>2. /\ call' \in [Calls -> Steps] /\ outcome' \in [Calls -> Sh!Answers \cup {None}]
        /\ withdrawn' \subseteq Calls /\ staged' \subseteq Calls
    BY <2>1 DEF Sh!did_choose, SheetBase, CallsTyped
  <2>3. system' \in Systems /\ busy' \in BOOLEAN /\ request' \in [Calls -> Sh!Requests \cup {None}]
    BY DEF Sh!did_choose, SheetBase, CallsTyped
  <2> QED BY <2>2, <2>3 DEF CallsTyped
<1>3. WindowsTyped' /\ ScreenTyped' /\ QueueTyped'
  BY DEF Sh!did_choose, SheetBase, CallsTyped, WindowsTyped, ScreenTyped, QueueTyped, Replies,
     Sh!ShareSheetAssumption, Sh!Requests, Sh!Answers, Sh!Outcomes, Sh!Errors
<1>4. OneGoing' /\ Activity'
  BY DEF Sh!did_choose, SheetBase, CallsTyped, OneGoing, Going, Activity
<1>5. Posted'
  <2>1. Onwards
    BY DEF Sh!did_choose, SheetBase, CallsTyped, Onwards
  <2>2. \A i \in DOMAIN queue' : \E j \in DOMAIN queue : queue'[i] = queue[j]
    BY DEF Sh!did_choose
  <2> QED BY <2>1, <2>2, PostedFewer DEF SheetBase
<1>6. ASSUME NEW d \in Calls, d # c PROVE Where(d)' /\ Told(d)'
  <2>1. Keeps(d)
    BY <1>6 DEF Sh!did_choose, SheetBase, CallsTyped, ScreenTyped, Keeps
  <2> QED BY <1>0, <2>1, CallKept
<1>7. Where(c)' /\ Told(c)'
  BY <1>0, <1>1 DEF SheetBase, ScreenTyped, Where, Told, Sh!ShareSheetAssumption, Sh!Requests,
     Sh!Answers, Sh!Outcomes, Sh!Errors
<1> QED BY <1>2, <1>3, <1>4, <1>5, <1>6, <1>7 DEF SheetBase


LEMMA SheetShared ==
  ASSUME Sh!ShareSheetAssumption, SheetBase, NEW c \in Calls, Sh!did_share(c)
  PROVE  SheetBase'
<1> USE DEF Sh!callVars, Sh!windowVars, Sh!androidVars, Sh!Sends, Sh!Screen, Sh!UserDid,
   Sh!elsewhere, Sh!finish, Sh!Windows
<1>0. \A d \in Calls : Where(d) /\ Told(d)
  BY DEF SheetBase
<1>1. /\ UNCHANGED <<system, withdrawn, call, outcome, jobs, timers>>
      /\ system = "macos" /\ sheet[c] = "chosen"
      /\ did'[c] = did[c] \cup {"shared"} /\ sheet'[c] = "left" /\ (UNCHANGED reply \/ reply'[c] = "shared")
  BY <1>0 DEF Sh!did_share, SheetBase, CallsTyped, ScreenTyped
<1>2. CallsTyped'
  <2>1. call'[c] \in Steps /\ outcome'[c] \in Sh!Answers \cup {None}
    BY <1>0, <1>1 DEF SheetBase, CallsTyped, ScreenTyped, Steps, Replies, Told, Sh!Requests,
       Sh!Answers, Sh!Outcomes, Sh!Errors
  <2>2. /\ call' \in [Calls -> Steps] /\ outcome' \in [Calls -> Sh!Answers \cup {None}]
        /\ withdrawn' \subseteq Calls /\ staged' \subseteq Calls
    BY <2>1 DEF Sh!did_share, SheetBase, CallsTyped
  <2>3. system' \in Systems /\ busy' \in BOOLEAN /\ request' \in [Calls -> Sh!Requests \cup {None}]
    BY DEF Sh!did_share, SheetBase, CallsTyped
  <2> QED BY <2>2, <2>3 DEF CallsTyped
<1>3. WindowsTyped' /\ ScreenTyped' /\ QueueTyped'
  <2>1. WindowsTyped'
    BY DEF Sh!did_share, SheetBase, CallsTyped, WindowsTyped
  <2>2. ScreenTyped'
    BY DEF Sh!did_share, SheetBase, ScreenTyped, Replies, Sh!ShareSheetAssumption, Sh!Requests,
       Sh!Answers, Sh!Outcomes, Sh!Errors
  <2>3. QueueTyped'
    BY DEF Sh!did_share, SheetBase, QueueTyped
  <2> QED BY <2>1, <2>2, <2>3
<1>4. OneGoing' /\ Activity'
  BY DEF Sh!did_share, SheetBase, CallsTyped, OneGoing, Going, Activity
<1>5. Posted'
  <2>1. Onwards
    BY DEF Sh!did_share, SheetBase, CallsTyped, Onwards
  <2>2. \A i \in DOMAIN queue' : \E j \in DOMAIN queue : queue'[i] = queue[j]
    BY DEF Sh!did_share
  <2> QED BY <2>1, <2>2, PostedFewer DEF SheetBase
<1>6. ASSUME NEW d \in Calls, d # c PROVE Where(d)' /\ Told(d)'
  <2>1. Keeps(d)
    BY <1>6 DEF Sh!did_share, SheetBase, CallsTyped, ScreenTyped, Keeps
  <2> QED BY <1>0, <2>1, CallKept
<1>7. Where(c)' /\ Told(c)'
  BY <1>0, <1>1 DEF SheetBase, ScreenTyped, Where, Told, Sh!ShareSheetAssumption, Sh!Requests,
     Sh!Answers, Sh!Outcomes, Sh!Errors
<1> QED BY <1>2, <1>3, <1>4, <1>5, <1>6, <1>7 DEF SheetBase


LEMMA SheetFails ==
  ASSUME Sh!ShareSheetAssumption, SheetBase, NEW c \in Calls, Sh!did_fail(c)
  PROVE  SheetBase'
<1> USE DEF Sh!callVars, Sh!windowVars, Sh!androidVars, Sh!Sends, Sh!Screen, Sh!UserDid,
   Sh!elsewhere, Sh!finish, Sh!Windows
<1>0. \A d \in Calls : Where(d) /\ Told(d)
  BY DEF SheetBase
<1>1. /\ UNCHANGED <<system, withdrawn, call, outcome, jobs, timers>>
      /\ system = "macos" /\ sheet[c] = "chosen" /\ sheet'[c] = "left"
      /\ \/ did'[c] = did[c] \cup {"left"} /\ (UNCHANGED reply \/ reply'[c] = "dismissed")
         \/ UNCHANGED did /\ (UNCHANGED reply \/ reply'[c] = "backend")
  BY <1>0 DEF Sh!did_fail, SheetBase, CallsTyped, ScreenTyped
<1>2. CallsTyped'
  <2>1. call'[c] \in Steps /\ outcome'[c] \in Sh!Answers \cup {None}
    BY <1>0, <1>1 DEF SheetBase, CallsTyped, ScreenTyped, Steps, Replies, Told, Sh!Requests,
       Sh!Answers, Sh!Outcomes, Sh!Errors
  <2>2. /\ call' \in [Calls -> Steps] /\ outcome' \in [Calls -> Sh!Answers \cup {None}]
        /\ withdrawn' \subseteq Calls /\ staged' \subseteq Calls
    BY <2>1 DEF Sh!did_fail, SheetBase, CallsTyped
  <2>3. system' \in Systems /\ busy' \in BOOLEAN /\ request' \in [Calls -> Sh!Requests \cup {None}]
    BY DEF Sh!did_fail, SheetBase, CallsTyped
  <2> QED BY <2>2, <2>3 DEF CallsTyped
<1>3. WindowsTyped' /\ ScreenTyped' /\ QueueTyped'
  <2>1. WindowsTyped'
    BY DEF Sh!did_fail, SheetBase, CallsTyped, WindowsTyped
  <2>2. ScreenTyped'
    BY DEF Sh!did_fail, SheetBase, ScreenTyped, Replies, Sh!ShareSheetAssumption, Sh!Requests,
       Sh!Answers, Sh!Outcomes, Sh!Errors
  <2>3. QueueTyped'
    BY DEF Sh!did_fail, SheetBase, QueueTyped
  <2> QED BY <2>1, <2>2, <2>3
<1>4. OneGoing' /\ Activity'
  BY DEF Sh!did_fail, SheetBase, CallsTyped, OneGoing, Going, Activity
<1>5. Posted'
  <2>1. Onwards
    BY DEF Sh!did_fail, SheetBase, CallsTyped, Onwards
  <2>2. \A i \in DOMAIN queue' : \E j \in DOMAIN queue : queue'[i] = queue[j]
    BY DEF Sh!did_fail
  <2> QED BY <2>1, <2>2, PostedFewer DEF SheetBase
<1>6. ASSUME NEW d \in Calls, d # c PROVE Where(d)' /\ Told(d)'
  <2>1. Keeps(d)
    BY <1>6 DEF Sh!did_fail, SheetBase, CallsTyped, ScreenTyped, Keeps
  <2> QED BY <1>0, <2>1, CallKept
<1>7. Where(c)' /\ Told(c)'
  BY <1>0, <1>1 DEF SheetBase, ScreenTyped, Where, Told, Sh!ShareSheetAssumption, Sh!Requests,
     Sh!Answers, Sh!Outcomes, Sh!Errors
<1> QED BY <1>2, <1>3, <1>4, <1>5, <1>6, <1>7 DEF SheetBase


LEMMA SheetTimeout ==
  ASSUME Sh!ShareSheetAssumption, SheetBase, NEW c \in Calls, Sh!schedule_service_timeout(c)
  PROVE  SheetBase'
<1> USE DEF Sh!callVars, Sh!windowVars, Sh!androidVars, Sh!Sends, Sh!Screen, Sh!elsewhere,
   Sh!finish, Sh!Windows
<1>0. \A d \in Calls : Where(d) /\ Told(d)
  BY DEF SheetBase
<1>h. system = "macos" /\ "chosen" \in did[c] /\ call[c] \notin {"new", "staging", "present"}
  BY <1>0 DEF Sh!schedule_service_timeout, SheetBase, CallsTyped, ScreenTyped, Activity, Told
<1>1. /\ UNCHANGED <<system, withdrawn, call, outcome, jobs, did>>
      /\ timers' = timers \ {c}
      /\ UNCHANGED <<reply, sheet>> \/ (sheet'[c] = "left" /\ (UNCHANGED reply \/ reply'[c] = "chosen"))
  BY <1>h, <1>0 DEF Sh!schedule_service_timeout, SheetBase, CallsTyped, ScreenTyped
<1>2. CallsTyped'
  <2>1. call'[c] \in Steps /\ outcome'[c] \in Sh!Answers \cup {None}
    BY <1>h, <1>0, <1>1 DEF SheetBase, CallsTyped, ScreenTyped, Steps, Replies, Told, Sh!Requests,
       Sh!Answers, Sh!Outcomes, Sh!Errors
  <2>2. /\ call' \in [Calls -> Steps] /\ outcome' \in [Calls -> Sh!Answers \cup {None}]
        /\ withdrawn' \subseteq Calls /\ staged' \subseteq Calls
    BY <1>h, <2>1 DEF Sh!schedule_service_timeout, SheetBase, CallsTyped
  <2>3. system' \in Systems /\ busy' \in BOOLEAN /\ request' \in [Calls -> Sh!Requests \cup {None}]
    BY <1>h DEF Sh!schedule_service_timeout, SheetBase, CallsTyped
  <2> QED BY <2>2, <2>3 DEF CallsTyped
<1>3. WindowsTyped' /\ ScreenTyped' /\ QueueTyped'
  BY <1>h DEF Sh!schedule_service_timeout, SheetBase, CallsTyped, WindowsTyped, ScreenTyped,
     QueueTyped, Replies, Sh!ShareSheetAssumption, Sh!Requests, Sh!Answers, Sh!Outcomes, Sh!Errors
<1>4. OneGoing' /\ Activity'
  BY <1>h DEF Sh!schedule_service_timeout, SheetBase, CallsTyped, OneGoing, Going, Activity
<1>5. Posted'
  <2>1. Onwards
    BY <1>h DEF Sh!schedule_service_timeout, SheetBase, CallsTyped, Onwards
  <2>2. \A i \in DOMAIN queue' : \E j \in DOMAIN queue : queue'[i] = queue[j]
    BY <1>h DEF Sh!schedule_service_timeout
  <2> QED BY <2>1, <2>2, PostedFewer DEF SheetBase
<1>6. ASSUME NEW d \in Calls, d # c PROVE Where(d)' /\ Told(d)'
  <2>1. Keeps(d)
    BY <1>h, <1>6 DEF Sh!schedule_service_timeout, SheetBase, CallsTyped, ScreenTyped, Keeps
  <2> QED BY <1>0, <2>1, CallKept
<1>7. Where(c)' /\ Told(c)'
  BY <1>h, <1>0, <1>1 DEF SheetBase, ScreenTyped, Where, Told, Sh!ShareSheetAssumption,
     Sh!Requests, Sh!Answers, Sh!Outcomes, Sh!Errors
<1> QED BY <1>2, <1>3, <1>4, <1>5, <1>6, <1>7 DEF SheetBase


LEMMA SheetPresentIos ==
  ASSUME Sh!ShareSheetAssumption, SheetBase, NEW c \in Calls, Sh!present_ios(c)
  PROVE  SheetBase'
<1> USE DEF Sh!windowVars, Sh!androidVars, Sh!Goes, Sh!Ends, Sh!Returns, Sh!presents, Sh!Screen,
   Sh!once, Sh!Windows
<1>0. \A d \in Calls : Where(d) /\ Told(d)
  BY DEF SheetBase
<1>m. Sh!Close(c) \in Sh!Messages
  BY DEF Sh!Close, Sh!Messages
<1>q. /\ QueueTyped'
      /\ \A i \in DOMAIN queue' : queue'[i] = Sh!Close(c) \/ \E j \in DOMAIN queue : queue'[i] = queue[j]
  <2>1. CASE Sh!post(Sh!Close(c))
    <3>1. \A i \in DOMAIN queue' : i \in DOMAIN queue \/ i = Len(queue) + 1
      BY <1>m, <2>1, PostsAtEnd DEF SheetBase
    <3> QED BY <1>m, <2>1, <3>1, PostsAtEnd DEF SheetBase
  <2>2. CASE UNCHANGED queue
    BY <2>2 DEF SheetBase, QueueTyped
  <2> QED BY <2>1, <2>2 DEF Sh!present_ios
<1>1. /\ UNCHANGED <<system, withdrawn, jobs, timers, did>>
      /\ system = "ios" /\ call[c] = "present"
      /\ \/ call'[c] = "done" /\ outcome'[c] \in {"invalid", "no_presenter"} /\ UNCHANGED <<reply, sheet>>
         \/ call'[c] = "waiting" /\ sheet'[c] = "up" /\ UNCHANGED <<outcome, reply>>
         \/ c \in withdrawn /\ call'[c] = "closing" /\ UNCHANGED <<outcome, sheet>>
            /\ (UNCHANGED reply \/ reply'[c] = "dismissed")
  BY <1>q, <1>0 DEF Sh!present_ios, SheetBase, CallsTyped, ScreenTyped
<1>2. CallsTyped'
  <2>1. call'[c] \in Steps /\ outcome'[c] \in Sh!Answers \cup {None}
    BY <1>q, <1>0, <1>1 DEF SheetBase, CallsTyped, ScreenTyped, Steps, Replies, Told, Sh!Requests,
       Sh!Answers, Sh!Outcomes, Sh!Errors
  <2>2. /\ call' \in [Calls -> Steps] /\ outcome' \in [Calls -> Sh!Answers \cup {None}]
        /\ withdrawn' \subseteq Calls /\ staged' \subseteq Calls
    BY <1>q, <2>1 DEF Sh!present_ios, SheetBase, CallsTyped
  <2>3. system' \in Systems /\ busy' \in BOOLEAN /\ request' \in [Calls -> Sh!Requests \cup {None}]
    BY <1>q DEF Sh!present_ios, SheetBase, CallsTyped
  <2> QED BY <2>2, <2>3 DEF CallsTyped
<1>3. WindowsTyped' /\ ScreenTyped' /\ QueueTyped'
  <2>1. WindowsTyped'
    BY <1>q DEF Sh!present_ios, SheetBase, WindowsTyped
  <2>2. ScreenTyped'
    BY <1>q DEF Sh!present_ios, SheetBase, CallsTyped, ScreenTyped, Replies, Sh!Requests,
       Sh!Answers, Sh!Outcomes, Sh!Errors
  <2> QED BY <1>q, <2>1, <2>2 DEF Sh!present_ios, SheetBase, QueueTyped
<1>4. OneGoing' /\ Activity'
  BY <1>q DEF Sh!present_ios, SheetBase, CallsTyped, OneGoing, Going, Activity
<1>5. Posted'
  <2>1. Onwards
    BY <1>q DEF Sh!present_ios, SheetBase, CallsTyped, Onwards
  <2>2. CASE UNCHANGED queue
    <3>1. \A i \in DOMAIN queue' : \E j \in DOMAIN queue : queue'[i] = queue[j]
      BY <2>2
    <3> QED BY <2>1, <3>1, PostedFewer DEF SheetBase
  <2>3. ASSUME queue' # queue PROVE Posted'
    <3>1. /\ call'[c] = "closing" /\ c \in withdrawn' /\ Sh!Close(c).call = c
      BY <2>3 DEF Sh!present_ios, SheetBase, CallsTyped, Sh!Close
    <3> QED BY <1>m, <1>q, <2>1, <3>1, PostedKept DEF SheetBase
  <2> QED BY <2>2, <2>3
<1>6. ASSUME NEW d \in Calls, d # c PROVE Where(d)' /\ Told(d)'
  <2>1. Keeps(d)
    BY <1>q, <1>6 DEF Sh!present_ios, SheetBase, CallsTyped, ScreenTyped, Keeps
  <2> QED BY <1>0, <2>1, CallKept
<1>7. Where(c)' /\ Told(c)'
  BY <1>q, <1>0, <1>1 DEF SheetBase, ScreenTyped, Where, Told, Sh!ShareSheetAssumption,
     Sh!Requests, Sh!Answers, Sh!Outcomes, Sh!Errors
<1> QED BY <1>2, <1>3, <1>4, <1>5, <1>6, <1>7 DEF SheetBase


LEMMA SheetOnCancel ==
  ASSUME Sh!ShareSheetAssumption, SheetBase, NEW c \in Calls, Sh!onCancel(c)
  PROVE  SheetBase'
<1> USE DEF Sh!windowVars, Sh!screenVars, Sh!androidVars, Sh!Goes, Sh!Windows
<1>0. \A d \in Calls : Where(d) /\ Told(d)
  BY DEF SheetBase
<1>m. Sh!Close(c) \in Sh!Messages
  BY DEF Sh!Close, Sh!Messages
<1>q. /\ QueueTyped'
      /\ \A i \in DOMAIN queue' : queue'[i] = Sh!Close(c) \/ \E j \in DOMAIN queue : queue'[i] = queue[j]
  <2>1. CASE Sh!post(Sh!Close(c))
    <3>1. \A i \in DOMAIN queue' : i \in DOMAIN queue \/ i = Len(queue) + 1
      BY <1>m, <2>1, PostsAtEnd DEF SheetBase
    <3> QED BY <1>m, <2>1, <3>1, PostsAtEnd DEF SheetBase
  <2>2. CASE UNCHANGED queue
    BY <2>2 DEF SheetBase, QueueTyped
  <2> QED BY <2>1, <2>2 DEF Sh!onCancel
<1>1. /\ UNCHANGED <<system, withdrawn, outcome, jobs, timers, reply, sheet, did>>
      /\ system = "ios" /\ c \in withdrawn /\ call[c] = "waiting" /\ call'[c] = "closing"
  BY <1>q, <1>0 DEF Sh!onCancel, SheetBase, CallsTyped, ScreenTyped
<1>2. CallsTyped'
  <2>1. call'[c] \in Steps /\ outcome'[c] \in Sh!Answers \cup {None}
    BY <1>q, <1>0, <1>1 DEF SheetBase, CallsTyped, ScreenTyped, Steps, Replies, Told, Sh!Requests,
       Sh!Answers, Sh!Outcomes, Sh!Errors
  <2>2. /\ call' \in [Calls -> Steps] /\ outcome' \in [Calls -> Sh!Answers \cup {None}]
        /\ withdrawn' \subseteq Calls /\ staged' \subseteq Calls
    BY <1>q, <2>1 DEF Sh!onCancel, SheetBase, CallsTyped
  <2>3. system' \in Systems /\ busy' \in BOOLEAN /\ request' \in [Calls -> Sh!Requests \cup {None}]
    BY <1>q DEF Sh!onCancel, SheetBase, CallsTyped
  <2> QED BY <2>2, <2>3 DEF CallsTyped
<1>3. WindowsTyped' /\ ScreenTyped' /\ QueueTyped'
  BY <1>q DEF Sh!onCancel, SheetBase, CallsTyped, WindowsTyped, ScreenTyped, QueueTyped, Replies,
     Sh!ShareSheetAssumption, Sh!Requests, Sh!Answers, Sh!Outcomes, Sh!Errors
<1>4. OneGoing' /\ Activity'
  BY <1>q DEF Sh!onCancel, SheetBase, CallsTyped, OneGoing, Going, Activity
<1>5. Posted'
  <2>1. Onwards
    BY <1>q DEF Sh!onCancel, SheetBase, CallsTyped, Onwards
  <2>2. /\ call'[c] \notin {"new", "staging", "present"} /\ Sh!Close(c).call = c
        /\ Sh!Close(c).kind = "close" => c \in withdrawn'
    BY <1>0, <1>1 DEF Where, Sh!Close
  <2> QED BY <1>m, <1>q, <2>1, <2>2, PostedKept DEF SheetBase
<1>6. ASSUME NEW d \in Calls, d # c PROVE Where(d)' /\ Told(d)'
  <2>1. Keeps(d)
    BY <1>q, <1>6 DEF Sh!onCancel, SheetBase, CallsTyped, ScreenTyped, Keeps
  <2> QED BY <1>0, <2>1, CallKept
<1>7. Where(c)' /\ Told(c)'
  BY <1>q, <1>0, <1>1 DEF SheetBase, ScreenTyped, Where, Told, Sh!ShareSheetAssumption,
     Sh!Requests, Sh!Answers, Sh!Outcomes, Sh!Errors
<1> QED BY <1>2, <1>3, <1>4, <1>5, <1>6, <1>7 DEF SheetBase


LEMMA SheetDismiss ==
  ASSUME Sh!ShareSheetAssumption, SheetBase, Sh!dismiss
  PROVE  SheetBase'
<1> USE DEF Sh!callVars, Sh!windowVars, Sh!androidVars, Sh!Screen, Sh!once, Where, Posted,
   Sh!Windows
<1>0. \A d \in Calls : Where(d) /\ Told(d)
  BY DEF SheetBase
<1>q. QueueTyped' /\ \A i \in DOMAIN queue' : \E j \in DOMAIN queue : queue'[i] = queue[j]
  BY TakesHead DEF SheetBase, Sh!dismiss
<1>h. /\ Head(queue) \in Sh!Messages /\ Head(queue).call \in Calls /\ system \in {"ios"}
      /\ 1 \in DOMAIN queue /\ queue[1] = Head(queue) /\ Head(queue).kind = "close"
  BY TakesHead DEF SheetBase, Sh!dismiss
<1>x. PICK x \in Calls : x = Head(queue).call
  BY <1>q, <1>h DEF Sh!dismiss, SheetBase, ScreenTyped
<1>1. /\ UNCHANGED <<system, withdrawn, call, outcome, jobs, timers, did>>
      /\ call[x] \notin {"new", "staging", "present"} /\ x \notin jobs /\ x \in withdrawn
      /\ UNCHANGED reply \/ reply'[x] = "dismissed"
      /\ UNCHANGED sheet \/ sheet'[x] = "left"
  BY <1>q, <1>h, <1>x, <1>0 DEF Sh!dismiss, SheetBase, CallsTyped, ScreenTyped
<1>2. CallsTyped'
  <2>1. call'[x] \in Steps /\ outcome'[x] \in Sh!Answers \cup {None}
    BY <1>q, <1>h, <1>x, <1>0, <1>1 DEF SheetBase, CallsTyped, ScreenTyped, Steps, Replies, Told,
       Sh!Requests, Sh!Answers, Sh!Outcomes, Sh!Errors
  <2>2. /\ call' \in [Calls -> Steps] /\ outcome' \in [Calls -> Sh!Answers \cup {None}]
        /\ withdrawn' \subseteq Calls /\ staged' \subseteq Calls
    BY <1>q, <1>h, <1>x, <2>1 DEF Sh!dismiss, SheetBase, CallsTyped
  <2>3. system' \in Systems /\ busy' \in BOOLEAN /\ request' \in [Calls -> Sh!Requests \cup {None}]
    BY <1>q, <1>h, <1>x DEF Sh!dismiss, SheetBase, CallsTyped
  <2> QED BY <2>2, <2>3 DEF CallsTyped
<1>3. WindowsTyped' /\ ScreenTyped' /\ QueueTyped'
  BY <1>q, <1>h, <1>x DEF Sh!dismiss, SheetBase, CallsTyped, WindowsTyped, ScreenTyped,
     QueueTyped, Replies, Sh!ShareSheetAssumption, Sh!Requests, Sh!Answers, Sh!Outcomes, Sh!Errors
<1>4. OneGoing' /\ Activity'
  BY <1>q, <1>h, <1>x DEF Sh!dismiss, SheetBase, CallsTyped, OneGoing, Going, Activity
<1>5. Posted'
  <2>1. Onwards
    BY <1>q, <1>h, <1>x DEF Sh!dismiss, SheetBase, CallsTyped, Onwards
  <2>2. \A i \in DOMAIN queue' : \E j \in DOMAIN queue : queue'[i] = queue[j]
    BY <1>q, <1>h, <1>x DEF Sh!dismiss
  <2> QED BY <2>1, <2>2, PostedFewer DEF SheetBase
<1>6. ASSUME NEW d \in Calls, d # x PROVE Where(d)' /\ Told(d)'
  <2>1. Keeps(d)
    BY <1>q, <1>h, <1>x, <1>6 DEF Sh!dismiss, SheetBase, CallsTyped, ScreenTyped, Keeps
  <2> QED BY <1>0, <2>1, CallKept
<1>7. Where(x)' /\ Told(x)'
  BY <1>q, <1>h, <1>x, <1>0, <1>1 DEF SheetBase, ScreenTyped, Where, Told,
     Sh!ShareSheetAssumption, Sh!Requests, Sh!Answers, Sh!Outcomes, Sh!Errors
<1> QED BY <1>2, <1>3, <1>4, <1>5, <1>6, <1>7 DEF SheetBase


LEMMA SheetCompletes ==
  ASSUME Sh!ShareSheetAssumption, SheetBase, NEW c \in Calls, Sh!completionWithItemsHandler(c)
  PROVE  SheetBase'
<1> USE DEF Sh!callVars, Sh!windowVars, Sh!androidVars, Sh!Screen, Sh!UserDid, Sh!elsewhere,
   Sh!once, Sh!Windows
<1>0. \A d \in Calls : Where(d) /\ Told(d)
  BY DEF SheetBase
<1>1. /\ UNCHANGED <<system, withdrawn, call, outcome, jobs, timers>>
      /\ system = "ios" /\ sheet[c] = "up" /\ sheet'[c] = "left"
      /\ \/ did'[c] = did[c] \cup {"shared"} /\ (UNCHANGED reply \/ reply'[c] = "shared")
         \/ did'[c] = did[c] \cup {"left"} /\ (UNCHANGED reply \/ reply'[c] = "dismissed")
         \/ UNCHANGED did /\ (UNCHANGED reply \/ reply'[c] = "backend")
  BY <1>0 DEF Sh!completionWithItemsHandler, SheetBase, CallsTyped, ScreenTyped
<1>2. CallsTyped'
  <2>1. call'[c] \in Steps /\ outcome'[c] \in Sh!Answers \cup {None}
    BY <1>0, <1>1 DEF SheetBase, CallsTyped, ScreenTyped, Steps, Replies, Told, Sh!Requests,
       Sh!Answers, Sh!Outcomes, Sh!Errors
  <2>2. /\ call' \in [Calls -> Steps] /\ outcome' \in [Calls -> Sh!Answers \cup {None}]
        /\ withdrawn' \subseteq Calls /\ staged' \subseteq Calls
    BY <2>1 DEF Sh!completionWithItemsHandler, SheetBase, CallsTyped
  <2>3. system' \in Systems /\ busy' \in BOOLEAN /\ request' \in [Calls -> Sh!Requests \cup {None}]
    BY DEF Sh!completionWithItemsHandler, SheetBase, CallsTyped
  <2> QED BY <2>2, <2>3 DEF CallsTyped
<1>3. WindowsTyped' /\ ScreenTyped' /\ QueueTyped'
  BY DEF Sh!completionWithItemsHandler, SheetBase, CallsTyped, WindowsTyped, ScreenTyped,
     QueueTyped, Replies, Sh!ShareSheetAssumption, Sh!Requests, Sh!Answers, Sh!Outcomes, Sh!Errors
<1>4. OneGoing' /\ Activity'
  BY DEF Sh!completionWithItemsHandler, SheetBase, CallsTyped, OneGoing, Going, Activity
<1>5. Posted'
  <2>1. Onwards
    BY DEF Sh!completionWithItemsHandler, SheetBase, CallsTyped, Onwards
  <2>2. \A i \in DOMAIN queue' : \E j \in DOMAIN queue : queue'[i] = queue[j]
    BY DEF Sh!completionWithItemsHandler
  <2> QED BY <2>1, <2>2, PostedFewer DEF SheetBase
<1>6. ASSUME NEW d \in Calls, d # c PROVE Where(d)' /\ Told(d)'
  <2>1. Keeps(d)
    BY <1>6 DEF Sh!completionWithItemsHandler, SheetBase, CallsTyped, ScreenTyped, Keeps
  <2> QED BY <1>0, <2>1, CallKept
<1>7. Where(c)' /\ Told(c)'
  BY <1>0, <1>1 DEF SheetBase, ScreenTyped, Where, Told, Sh!ShareSheetAssumption, Sh!Requests,
     Sh!Answers, Sh!Outcomes, Sh!Errors
<1> QED BY <1>2, <1>3, <1>4, <1>5, <1>6, <1>7 DEF SheetBase


LEMMA SheetPresentAndroid ==
  ASSUME Sh!ShareSheetAssumption, SheetBase, NEW c \in Calls, Sh!present_android(c)
  PROVE  SheetBase'
<1> USE DEF Sh!windowVars, Sh!Goes, Sh!Ends, Sh!Returns, Sh!presents, Sh!Screen, Sh!Windows
<1>0. \A d \in Calls : Where(d) /\ Told(d)
  BY DEF SheetBase
<1>1. /\ UNCHANGED <<system, withdrawn, jobs, timers, reply, did>>
      /\ system = "android" /\ call[c] = "present"
      /\ \/ call'[c] = "done" /\ outcome'[c] = "backend" /\ UNCHANGED sheet
         \/ /\ UNCHANGED outcome /\ sheet'[c] = "up"
            /\ call'[c] = "waiting" \/ (c \in withdrawn /\ call'[c] = "cancelling")
  BY <1>0 DEF Sh!present_android, SheetBase, CallsTyped, ScreenTyped
<1>2. CallsTyped'
  <2>1. call'[c] \in Steps /\ outcome'[c] \in Sh!Answers \cup {None}
    BY <1>0, <1>1 DEF SheetBase, CallsTyped, ScreenTyped, Steps, Replies, Told, Sh!Requests,
       Sh!Answers, Sh!Outcomes, Sh!Errors
  <2>2. /\ call' \in [Calls -> Steps] /\ outcome' \in [Calls -> Sh!Answers \cup {None}]
        /\ withdrawn' \subseteq Calls /\ staged' \subseteq Calls
    BY <2>1 DEF Sh!present_android, SheetBase, CallsTyped
  <2>3. system' \in Systems /\ busy' \in BOOLEAN /\ request' \in [Calls -> Sh!Requests \cup {None}]
    BY DEF Sh!present_android, SheetBase, CallsTyped
  <2> QED BY <2>2, <2>3 DEF CallsTyped
<1>3. WindowsTyped' /\ ScreenTyped' /\ QueueTyped'
  BY DEF Sh!present_android, SheetBase, CallsTyped, WindowsTyped, ScreenTyped, QueueTyped,
     Replies, Sh!ShareSheetAssumption, Sh!Requests, Sh!Answers, Sh!Outcomes, Sh!Errors
<1>4. OneGoing' /\ Activity'
  BY DEF Sh!present_android, SheetBase, CallsTyped, OneGoing, Going, Activity
<1>5. Posted'
  <2>1. Onwards
    BY DEF Sh!present_android, SheetBase, CallsTyped, Onwards
  <2>2. \A i \in DOMAIN queue' : \E j \in DOMAIN queue : queue'[i] = queue[j]
    BY DEF Sh!present_android
  <2> QED BY <2>1, <2>2, PostedFewer DEF SheetBase
<1>6. ASSUME NEW d \in Calls, d # c PROVE Where(d)' /\ Told(d)'
  <2>1. Keeps(d)
    BY <1>6 DEF Sh!present_android, SheetBase, CallsTyped, ScreenTyped, Keeps
  <2> QED BY <1>0, <2>1, CallKept
<1>7. Where(c)' /\ Told(c)'
  BY <1>0, <1>1 DEF SheetBase, ScreenTyped, Where, Told, Sh!ShareSheetAssumption, Sh!Requests,
     Sh!Answers, Sh!Outcomes, Sh!Errors
<1> QED BY <1>2, <1>3, <1>4, <1>5, <1>6, <1>7 DEF SheetBase


LEMMA SheetLeaveChooser ==
  ASSUME Sh!ShareSheetAssumption, SheetBase, NEW c \in Calls, Sh!LeaveChooser(c)
  PROVE  SheetBase'
<1> USE DEF Sh!callVars, Sh!windowVars, Sh!Screen, Sh!UserDid, Sh!elsewhere
<1>0. \A d \in Calls : Where(d) /\ Told(d)
  BY DEF SheetBase
<1>1. /\ UNCHANGED <<system, withdrawn, call, outcome, jobs, timers, reply>>
      /\ sheet[c] = "up" /\ sheet'[c] = "left" /\ system = "android" /\ did[c] \subseteq did'[c]
  BY <1>0 DEF Sh!LeaveChooser, SheetBase, CallsTyped, ScreenTyped
<1>2. CallsTyped'
  <2>1. call'[c] \in Steps /\ outcome'[c] \in Sh!Answers \cup {None}
    BY <1>0, <1>1 DEF SheetBase, CallsTyped, ScreenTyped, Steps, Replies, Told, Sh!Requests,
       Sh!Answers, Sh!Outcomes, Sh!Errors
  <2>2. /\ call' \in [Calls -> Steps] /\ outcome' \in [Calls -> Sh!Answers \cup {None}]
        /\ withdrawn' \subseteq Calls /\ staged' \subseteq Calls
    BY <2>1 DEF Sh!LeaveChooser, SheetBase, CallsTyped
  <2>3. system' \in Systems /\ busy' \in BOOLEAN /\ request' \in [Calls -> Sh!Requests \cup {None}]
    BY DEF Sh!LeaveChooser, SheetBase, CallsTyped
  <2> QED BY <2>2, <2>3 DEF CallsTyped
<1>3. WindowsTyped' /\ ScreenTyped' /\ QueueTyped'
  BY DEF Sh!LeaveChooser, SheetBase, CallsTyped, WindowsTyped, ScreenTyped, QueueTyped, Replies,
     Sh!ShareSheetAssumption, Sh!Requests, Sh!Answers, Sh!Outcomes, Sh!Errors
<1>4. OneGoing' /\ Activity'
  BY DEF Sh!LeaveChooser, SheetBase, CallsTyped, OneGoing, Going, Activity
<1>5. Posted'
  <2>1. Onwards
    BY DEF Sh!LeaveChooser, SheetBase, CallsTyped, Onwards
  <2>2. \A i \in DOMAIN queue' : \E j \in DOMAIN queue : queue'[i] = queue[j]
    BY DEF Sh!LeaveChooser
  <2> QED BY <2>1, <2>2, PostedFewer DEF SheetBase
<1>6. ASSUME NEW d \in Calls, d # c PROVE Where(d)' /\ Told(d)'
  <2>1. Keeps(d)
    BY <1>6 DEF Sh!LeaveChooser, SheetBase, CallsTyped, ScreenTyped, Keeps
  <2> QED BY <1>0, <2>1, CallKept
<1>7. Where(c)' /\ Told(c)'
  BY <1>0, <1>1 DEF SheetBase, ScreenTyped, Where, Told, Sh!ShareSheetAssumption, Sh!Requests,
     Sh!Answers, Sh!Outcomes, Sh!Errors
<1> QED BY <1>2, <1>3, <1>4, <1>5, <1>6, <1>7 DEF SheetBase


LEMMA SheetReceive ==
  ASSUME Sh!ShareSheetAssumption, SheetBase, NEW c \in Calls, Sh!onReceive(c)
  PROVE  SheetBase'
<1> USE DEF Sh!callVars, Sh!windowVars, Sh!screenVars, Sh!elsewhere
<1>0. \A d \in Calls : Where(d) /\ Told(d)
  BY DEF SheetBase
<1>1. /\ UNCHANGED <<system, withdrawn, call, outcome, jobs, timers, reply, sheet, did>>
      
  BY <1>0 DEF Sh!onReceive, SheetBase, CallsTyped, ScreenTyped
<1>2. CallsTyped'
  <2>1. call'[c] \in Steps /\ outcome'[c] \in Sh!Answers \cup {None}
    BY <1>0, <1>1 DEF SheetBase, CallsTyped, ScreenTyped, Steps, Replies, Told, Sh!Requests,
       Sh!Answers, Sh!Outcomes, Sh!Errors
  <2>2. /\ call' \in [Calls -> Steps] /\ outcome' \in [Calls -> Sh!Answers \cup {None}]
        /\ withdrawn' \subseteq Calls /\ staged' \subseteq Calls
    BY <2>1 DEF Sh!onReceive, SheetBase, CallsTyped
  <2>3. system' \in Systems /\ busy' \in BOOLEAN /\ request' \in [Calls -> Sh!Requests \cup {None}]
    BY DEF Sh!onReceive, SheetBase, CallsTyped
  <2> QED BY <2>2, <2>3 DEF CallsTyped
<1>3. WindowsTyped' /\ ScreenTyped' /\ QueueTyped'
  BY DEF Sh!onReceive, SheetBase, CallsTyped, WindowsTyped, ScreenTyped, QueueTyped, Replies,
     Sh!ShareSheetAssumption, Sh!Requests, Sh!Answers, Sh!Outcomes, Sh!Errors
<1>4. OneGoing' /\ Activity'
  BY DEF Sh!onReceive, SheetBase, CallsTyped, OneGoing, Going, Activity
<1>5. Posted'
  <2>1. Onwards
    BY DEF Sh!onReceive, SheetBase, CallsTyped, Onwards
  <2>2. \A i \in DOMAIN queue' : \E j \in DOMAIN queue : queue'[i] = queue[j]
    BY DEF Sh!onReceive
  <2> QED BY <2>1, <2>2, PostedFewer DEF SheetBase
<1>6. ASSUME NEW d \in Calls, d # c PROVE Where(d)' /\ Told(d)'
  <2>1. Keeps(d)
    BY <1>6 DEF Sh!onReceive, SheetBase, CallsTyped, ScreenTyped, Keeps
  <2> QED BY <1>0, <2>1, CallKept
<1>7. Where(c)' /\ Told(c)'
  BY <1>0, <1>1 DEF SheetBase, ScreenTyped, Where, Told, Sh!ShareSheetAssumption, Sh!Requests,
     Sh!Answers, Sh!Outcomes, Sh!Errors
<1> QED BY <1>2, <1>3, <1>4, <1>5, <1>6, <1>7 DEF SheetBase


LEMMA SheetResult ==
  ASSUME Sh!ShareSheetAssumption, SheetBase, NEW c \in Calls, Sh!chooserResult(c)
  PROVE  SheetBase'
<1> USE DEF Sh!callVars, Sh!windowVars, Sh!screenVars, Sh!elsewhere
<1>0. \A d \in Calls : Where(d) /\ Told(d)
  BY DEF SheetBase
<1>1. /\ UNCHANGED <<system, withdrawn, call, outcome, jobs, timers, reply, sheet, did>>
      
  BY <1>0 DEF Sh!chooserResult, SheetBase, CallsTyped, ScreenTyped
<1>2. CallsTyped'
  <2>1. call'[c] \in Steps /\ outcome'[c] \in Sh!Answers \cup {None}
    BY <1>0, <1>1 DEF SheetBase, CallsTyped, ScreenTyped, Steps, Replies, Told, Sh!Requests,
       Sh!Answers, Sh!Outcomes, Sh!Errors
  <2>2. /\ call' \in [Calls -> Steps] /\ outcome' \in [Calls -> Sh!Answers \cup {None}]
        /\ withdrawn' \subseteq Calls /\ staged' \subseteq Calls
    BY <2>1 DEF Sh!chooserResult, SheetBase, CallsTyped
  <2>3. system' \in Systems /\ busy' \in BOOLEAN /\ request' \in [Calls -> Sh!Requests \cup {None}]
    BY DEF Sh!chooserResult, SheetBase, CallsTyped
  <2> QED BY <2>2, <2>3 DEF CallsTyped
<1>3. WindowsTyped' /\ ScreenTyped' /\ QueueTyped'
  BY DEF Sh!chooserResult, SheetBase, CallsTyped, WindowsTyped, ScreenTyped, QueueTyped, Replies,
     Sh!ShareSheetAssumption, Sh!Requests, Sh!Answers, Sh!Outcomes, Sh!Errors
<1>4. OneGoing' /\ Activity'
  BY DEF Sh!chooserResult, SheetBase, CallsTyped, OneGoing, Going, Activity
<1>5. Posted'
  <2>1. Onwards
    BY DEF Sh!chooserResult, SheetBase, CallsTyped, Onwards
  <2>2. \A i \in DOMAIN queue' : \E j \in DOMAIN queue : queue'[i] = queue[j]
    BY DEF Sh!chooserResult
  <2> QED BY <2>1, <2>2, PostedFewer DEF SheetBase
<1>6. ASSUME NEW d \in Calls, d # c PROVE Where(d)' /\ Told(d)'
  <2>1. Keeps(d)
    BY <1>6 DEF Sh!chooserResult, SheetBase, CallsTyped, ScreenTyped, Keeps
  <2> QED BY <1>0, <2>1, CallKept
<1>7. Where(c)' /\ Told(c)'
  BY <1>0, <1>1 DEF SheetBase, ScreenTyped, Where, Told, Sh!ShareSheetAssumption, Sh!Requests,
     Sh!Answers, Sh!Outcomes, Sh!Errors
<1> QED BY <1>2, <1>3, <1>4, <1>5, <1>6, <1>7 DEF SheetBase


LEMMA SheetResume ==
  ASSUME Sh!ShareSheetAssumption, SheetBase, Sh!chooserResume
  PROVE  SheetBase'
<1> USE DEF Sh!callVars, Sh!windowVars, Where, Sh!Windows
<1>0. \A d \in Calls : Where(d) /\ Told(d)
  BY DEF SheetBase
<1>x. PICK x \in Calls : x = taken
  BY DEF Sh!chooserResume, SheetBase, ScreenTyped
<1>h. system = "android"
  BY <1>x, <1>0 DEF Sh!chooserResume, SheetBase, CallsTyped, ScreenTyped, Activity, Told
<1>1. /\ UNCHANGED <<system, withdrawn, call, outcome, jobs, timers, sheet, did>>
      /\ UNCHANGED reply \/ (call[x] = "waiting" /\ reply'[x] = "result" /\ x \notin jobs)
  BY <1>x, <1>h, <1>0 DEF Sh!chooserResume, SheetBase, CallsTyped, ScreenTyped
<1>2. CallsTyped'
  <2>1. call'[x] \in Steps /\ outcome'[x] \in Sh!Answers \cup {None}
    BY <1>x, <1>h, <1>0, <1>1 DEF SheetBase, CallsTyped, ScreenTyped, Steps, Replies, Told,
       Sh!Requests, Sh!Answers, Sh!Outcomes, Sh!Errors
  <2>2. /\ call' \in [Calls -> Steps] /\ outcome' \in [Calls -> Sh!Answers \cup {None}]
        /\ withdrawn' \subseteq Calls /\ staged' \subseteq Calls
    BY <1>x, <1>h, <2>1 DEF Sh!chooserResume, SheetBase, CallsTyped
  <2>3. system' \in Systems /\ busy' \in BOOLEAN /\ request' \in [Calls -> Sh!Requests \cup {None}]
    BY <1>x, <1>h DEF Sh!chooserResume, SheetBase, CallsTyped
  <2> QED BY <2>2, <2>3 DEF CallsTyped
<1>3. WindowsTyped' /\ ScreenTyped' /\ QueueTyped'
  BY <1>x, <1>h DEF Sh!chooserResume, SheetBase, CallsTyped, WindowsTyped, ScreenTyped,
     QueueTyped, Replies, Sh!ShareSheetAssumption, Sh!Requests, Sh!Answers, Sh!Outcomes, Sh!Errors
<1>4. OneGoing' /\ Activity'
  BY <1>x, <1>h DEF Sh!chooserResume, SheetBase, CallsTyped, OneGoing, Going, Activity
<1>5. Posted'
  <2>1. Onwards
    BY <1>x, <1>h DEF Sh!chooserResume, SheetBase, CallsTyped, Onwards
  <2>2. \A i \in DOMAIN queue' : \E j \in DOMAIN queue : queue'[i] = queue[j]
    BY <1>x, <1>h DEF Sh!chooserResume
  <2> QED BY <2>1, <2>2, PostedFewer DEF SheetBase
<1>6. ASSUME NEW d \in Calls, d # x PROVE Where(d)' /\ Told(d)'
  <2>1. Keeps(d)
    BY <1>x, <1>h, <1>6 DEF Sh!chooserResume, SheetBase, CallsTyped, ScreenTyped, Keeps
  <2> QED BY <1>0, <2>1, CallKept
<1>7. Where(x)' /\ Told(x)'
  BY <1>x, <1>h, <1>0, <1>1 DEF SheetBase, ScreenTyped, Where, Told, Sh!ShareSheetAssumption,
     Sh!Requests, Sh!Answers, Sh!Outcomes, Sh!Errors
<1> QED BY <1>2, <1>3, <1>4, <1>5, <1>6, <1>7 DEF SheetBase


LEMMA SheetResumed ==
  ASSUME Sh!ShareSheetAssumption, SheetBase, NEW c \in Calls, Sh!Resumed(c)
  PROVE  SheetBase'
<1> USE DEF Sh!windowVars, Sh!androidVars, Sh!Goes, Sh!Windows
<1>0. \A d \in Calls : Where(d) /\ Told(d)
  BY DEF SheetBase
<1>1. /\ UNCHANGED <<system, withdrawn, outcome, jobs, timers, sheet, did>>
      /\ system = "android" /\ call[c] = "waiting"
      /\ call'[c] = "grace" /\ reply'[c] = None
  BY <1>0 DEF Sh!Resumed, SheetBase, CallsTyped, ScreenTyped
<1>2. CallsTyped'
  <2>1. call'[c] \in Steps /\ outcome'[c] \in Sh!Answers \cup {None}
    BY <1>0, <1>1 DEF SheetBase, CallsTyped, ScreenTyped, Steps, Replies, Told, Sh!Requests,
       Sh!Answers, Sh!Outcomes, Sh!Errors
  <2>2. /\ call' \in [Calls -> Steps] /\ outcome' \in [Calls -> Sh!Answers \cup {None}]
        /\ withdrawn' \subseteq Calls /\ staged' \subseteq Calls
    BY <2>1 DEF Sh!Resumed, SheetBase, CallsTyped
  <2>3. system' \in Systems /\ busy' \in BOOLEAN /\ request' \in [Calls -> Sh!Requests \cup {None}]
    BY DEF Sh!Resumed, SheetBase, CallsTyped
  <2> QED BY <2>2, <2>3 DEF CallsTyped
<1>3. WindowsTyped' /\ ScreenTyped' /\ QueueTyped'
  BY DEF Sh!Resumed, SheetBase, CallsTyped, WindowsTyped, ScreenTyped, QueueTyped, Replies,
     Sh!ShareSheetAssumption, Sh!Requests, Sh!Answers, Sh!Outcomes, Sh!Errors
<1>4. OneGoing' /\ Activity'
  BY DEF Sh!Resumed, SheetBase, CallsTyped, OneGoing, Going, Activity
<1>5. Posted'
  <2>1. Onwards
    BY DEF Sh!Resumed, SheetBase, CallsTyped, Onwards
  <2>2. \A i \in DOMAIN queue' : \E j \in DOMAIN queue : queue'[i] = queue[j]
    BY DEF Sh!Resumed
  <2> QED BY <2>1, <2>2, PostedFewer DEF SheetBase
<1>6. ASSUME NEW d \in Calls, d # c PROVE Where(d)' /\ Told(d)'
  <2>1. Keeps(d)
    BY <1>6 DEF Sh!Resumed, SheetBase, CallsTyped, ScreenTyped, Keeps
  <2> QED BY <1>0, <2>1, CallKept
<1>7. Where(c)' /\ Told(c)'
  BY <1>0, <1>1 DEF SheetBase, ScreenTyped, Where, Told, Sh!ShareSheetAssumption, Sh!Requests,
     Sh!Answers, Sh!Outcomes, Sh!Errors
<1> QED BY <1>2, <1>3, <1>4, <1>5, <1>6, <1>7 DEF SheetBase


LEMMA SheetGrace ==
  ASSUME Sh!ShareSheetAssumption, SheetBase, NEW c \in Calls, Sh!awaitChosen(c)
  PROVE  SheetBase'
<1> USE DEF Sh!windowVars, Sh!androidVars, Sh!Ends, Sh!Returns, Sh!Received, Where
<1>0. \A d \in Calls : Where(d) /\ Told(d)
  BY DEF SheetBase
<1>1. /\ UNCHANGED <<system, withdrawn, jobs, timers, sheet, did>>
      /\ system = "android" /\ call[c] = "grace"
      /\ call'[c] = "done" /\ outcome'[c] \in {"unknown", "chosen"} /\ reply'[c] = None
  BY <1>0 DEF Sh!awaitChosen, SheetBase, CallsTyped, ScreenTyped
<1>2. CallsTyped'
  <2>1. call'[c] \in Steps /\ outcome'[c] \in Sh!Answers \cup {None}
    BY <1>0, <1>1 DEF SheetBase, CallsTyped, ScreenTyped, Steps, Replies, Told, Sh!Requests,
       Sh!Answers, Sh!Outcomes, Sh!Errors
  <2>2. /\ call' \in [Calls -> Steps] /\ outcome' \in [Calls -> Sh!Answers \cup {None}]
        /\ withdrawn' \subseteq Calls /\ staged' \subseteq Calls
    BY <2>1 DEF Sh!awaitChosen, SheetBase, CallsTyped
  <2>3. system' \in Systems /\ busy' \in BOOLEAN /\ request' \in [Calls -> Sh!Requests \cup {None}]
    BY DEF Sh!awaitChosen, SheetBase, CallsTyped
  <2> QED BY <2>2, <2>3 DEF CallsTyped
<1>3. WindowsTyped' /\ ScreenTyped' /\ QueueTyped'
  BY DEF Sh!awaitChosen, SheetBase, CallsTyped, WindowsTyped, ScreenTyped, QueueTyped, Replies,
     Sh!ShareSheetAssumption, Sh!Requests, Sh!Answers, Sh!Outcomes, Sh!Errors
<1>4. OneGoing' /\ Activity'
  BY DEF Sh!awaitChosen, SheetBase, CallsTyped, OneGoing, Going, Activity
<1>5. Posted'
  <2>1. Onwards
    BY DEF Sh!awaitChosen, SheetBase, CallsTyped, Onwards
  <2>2. \A i \in DOMAIN queue' : \E j \in DOMAIN queue : queue'[i] = queue[j]
    BY DEF Sh!awaitChosen
  <2> QED BY <2>1, <2>2, PostedFewer DEF SheetBase
<1>6. ASSUME NEW d \in Calls, d # c PROVE Where(d)' /\ Told(d)'
  <2>1. Keeps(d)
    BY <1>6 DEF Sh!awaitChosen, SheetBase, CallsTyped, ScreenTyped, Keeps
  <2> QED BY <1>0, <2>1, CallKept
<1>7. Where(c)' /\ Told(c)'
  BY <1>0, <1>1 DEF SheetBase, ScreenTyped, Where, Told, Sh!ShareSheetAssumption, Sh!Requests,
     Sh!Answers, Sh!Outcomes, Sh!Errors
<1> QED BY <1>2, <1>3, <1>4, <1>5, <1>6, <1>7 DEF SheetBase


LEMMA SheetCoroutine ==
  ASSUME Sh!ShareSheetAssumption, SheetBase, NEW c \in Calls, Sh!cancelCoroutine(c)
  PROVE  SheetBase'
<1> USE DEF Sh!windowVars, Sh!androidVars, Sh!Goes
<1>0. \A d \in Calls : Where(d) /\ Told(d)
  BY DEF SheetBase
<1>1. /\ UNCHANGED <<system, withdrawn, outcome, jobs, timers, reply, sheet, did>>
      /\ system = "android" /\ c \in withdrawn /\ call[c] \in {"staging", "grace", "waiting"}
      /\ call'[c] = "cancelling"
  BY <1>0 DEF Sh!cancelCoroutine, SheetBase, CallsTyped, ScreenTyped
<1>2. CallsTyped'
  <2>1. call'[c] \in Steps /\ outcome'[c] \in Sh!Answers \cup {None}
    BY <1>0, <1>1 DEF SheetBase, CallsTyped, ScreenTyped, Steps, Replies, Told, Sh!Requests,
       Sh!Answers, Sh!Outcomes, Sh!Errors
  <2>2. /\ call' \in [Calls -> Steps] /\ outcome' \in [Calls -> Sh!Answers \cup {None}]
        /\ withdrawn' \subseteq Calls /\ staged' \subseteq Calls
    BY <2>1 DEF Sh!cancelCoroutine, SheetBase, CallsTyped
  <2>3. system' \in Systems /\ busy' \in BOOLEAN /\ request' \in [Calls -> Sh!Requests \cup {None}]
    BY DEF Sh!cancelCoroutine, SheetBase, CallsTyped
  <2> QED BY <2>2, <2>3 DEF CallsTyped
<1>3. WindowsTyped' /\ ScreenTyped' /\ QueueTyped'
  BY DEF Sh!cancelCoroutine, SheetBase, CallsTyped, WindowsTyped, ScreenTyped, QueueTyped,
     Replies, Sh!ShareSheetAssumption, Sh!Requests, Sh!Answers, Sh!Outcomes, Sh!Errors
<1>4. OneGoing' /\ Activity'
  BY DEF Sh!cancelCoroutine, SheetBase, CallsTyped, OneGoing, Going, Activity
<1>5. Posted'
  <2>1. Onwards
    BY DEF Sh!cancelCoroutine, SheetBase, CallsTyped, Onwards
  <2>2. \A i \in DOMAIN queue' : \E j \in DOMAIN queue : queue'[i] = queue[j]
    BY DEF Sh!cancelCoroutine
  <2> QED BY <2>1, <2>2, PostedFewer DEF SheetBase
<1>6. ASSUME NEW d \in Calls, d # c PROVE Where(d)' /\ Told(d)'
  <2>1. Keeps(d)
    BY <1>6 DEF Sh!cancelCoroutine, SheetBase, CallsTyped, ScreenTyped, Keeps
  <2> QED BY <1>0, <2>1, CallKept
<1>7. Where(c)' /\ Told(c)'
  BY <1>0, <1>1 DEF SheetBase, ScreenTyped, Where, Told, Sh!ShareSheetAssumption, Sh!Requests,
     Sh!Answers, Sh!Outcomes, Sh!Errors
<1> QED BY <1>2, <1>3, <1>4, <1>5, <1>6, <1>7 DEF SheetBase


LEMMA SheetUnlock ==
  ASSUME Sh!ShareSheetAssumption, SheetBase, NEW c \in Calls, Sh!unlock(c)
  PROVE  SheetBase'
<1> USE DEF Sh!windowVars, Sh!androidVars, Sh!Ends, Sh!Returns, Sh!Received, Sh!Windows
<1>0. \A d \in Calls : Where(d) /\ Told(d)
  BY DEF SheetBase
<1>1. /\ UNCHANGED <<system, withdrawn, jobs, timers, sheet, did>>
      /\ system = "android" /\ call[c] = "cancelling"
      /\ call'[c] = "done" /\ outcome'[c] = "cancelled" /\ reply'[c] = None
  BY <1>0 DEF Sh!unlock, SheetBase, CallsTyped, ScreenTyped
<1>2. CallsTyped'
  <2>1. call'[c] \in Steps /\ outcome'[c] \in Sh!Answers \cup {None}
    BY <1>0, <1>1 DEF SheetBase, CallsTyped, ScreenTyped, Steps, Replies, Told, Sh!Requests,
       Sh!Answers, Sh!Outcomes, Sh!Errors
  <2>2. /\ call' \in [Calls -> Steps] /\ outcome' \in [Calls -> Sh!Answers \cup {None}]
        /\ withdrawn' \subseteq Calls /\ staged' \subseteq Calls
    BY <2>1 DEF Sh!unlock, SheetBase, CallsTyped
  <2>3. system' \in Systems /\ busy' \in BOOLEAN /\ request' \in [Calls -> Sh!Requests \cup {None}]
    BY DEF Sh!unlock, SheetBase, CallsTyped
  <2> QED BY <2>2, <2>3 DEF CallsTyped
<1>3. WindowsTyped' /\ ScreenTyped' /\ QueueTyped'
  BY DEF Sh!unlock, SheetBase, CallsTyped, WindowsTyped, ScreenTyped, QueueTyped, Replies,
     Sh!ShareSheetAssumption, Sh!Requests, Sh!Answers, Sh!Outcomes, Sh!Errors
<1>4. OneGoing' /\ Activity'
  BY DEF Sh!unlock, SheetBase, CallsTyped, OneGoing, Going, Activity
<1>5. Posted'
  <2>1. Onwards
    BY DEF Sh!unlock, SheetBase, CallsTyped, Onwards
  <2>2. \A i \in DOMAIN queue' : \E j \in DOMAIN queue : queue'[i] = queue[j]
    BY DEF Sh!unlock
  <2> QED BY <2>1, <2>2, PostedFewer DEF SheetBase
<1>6. ASSUME NEW d \in Calls, d # c PROVE Where(d)' /\ Told(d)'
  <2>1. Keeps(d)
    BY <1>6 DEF Sh!unlock, SheetBase, CallsTyped, ScreenTyped, Keeps
  <2> QED BY <1>0, <2>1, CallKept
<1>7. Where(c)' /\ Told(c)'
  BY <1>0, <1>1 DEF SheetBase, ScreenTyped, Where, Told, Sh!ShareSheetAssumption, Sh!Requests,
     Sh!Answers, Sh!Outcomes, Sh!Errors
<1> QED BY <1>2, <1>3, <1>4, <1>5, <1>6, <1>7 DEF SheetBase


\* Windows come and go, and files are purged, without any call being touched.
LEMMA SheetElsewhere ==
  ASSUME Sh!ShareSheetAssumption, SheetBase,
         Sh!purge_staged \/ \E h \in Handles : \/ Sh!OpenWindow(h) \/ Sh!Register(h)
                                              \/ Sh!Unregister(h) \/ Sh!Destroy(h)
  PROVE  /\ SheetBase'
         /\ UNCHANGED <<system, call, outcome, withdrawn, busy, jobs, queue, sheet, reply, active,
                        did, timers, results, taken>>
<1> USE DEF Sh!windowsOnly, Sh!callVars, Sh!windowVars, Sh!screenVars, Sh!androidVars,
   Sh!nothingShown
<1>1. /\ UNCHANGED <<system, request, call, outcome, withdrawn, busy, jobs, queue, sheet, reply, active,
                     did, timers, chosen, late, results, taken>>
      /\ staged' \subseteq staged /\ aimed' = aimed
  BY DEF Sh!purge_staged, Sh!OpenWindow, Sh!Register, Sh!Unregister, Sh!Destroy
<1>2. WindowsTyped'
  <2>1. CASE Sh!purge_staged
    BY <2>1 DEF Sh!purge_staged, SheetBase, WindowsTyped
  <2>2. ASSUME NEW h \in Handles, Sh!OpenWindow(h) PROVE WindowsTyped'
    BY <2>2 DEF Sh!OpenWindow, SheetBase, WindowsTyped
  <2>3. ASSUME NEW h \in Handles, Sh!Register(h) PROVE WindowsTyped'
    BY <2>3 DEF Sh!Register, SheetBase, WindowsTyped
  <2>4. ASSUME NEW h \in Handles, Sh!Unregister(h) PROVE WindowsTyped'
    BY <2>4 DEF Sh!Unregister, SheetBase, WindowsTyped
  <2>5. ASSUME NEW h \in Handles, Sh!Destroy(h) PROVE WindowsTyped'
    BY <2>5 DEF Sh!Destroy, SheetBase, WindowsTyped
  <2> QED BY <2>1, <2>2, <2>3, <2>4, <2>5
<1>3. CallsTyped' /\ ScreenTyped' /\ QueueTyped'
  BY <1>1 DEF SheetBase, CallsTyped, ScreenTyped, QueueTyped
<1>4. OneGoing' /\ Activity' /\ Posted'
  BY <1>1 DEF SheetBase, OneGoing, Going, Activity, Posted
<1>5. ASSUME NEW d \in Calls PROVE Where(d)' /\ Told(d)'
  BY <1>1, CallKept DEF SheetBase, Keeps
<1> QED BY <1>1, <1>2, <1>3, <1>4, <1>5 DEF SheetBase
-----------------------------------------------------------------------------
(* The order on macOS.                                                     *)

LEMMA MessagesTyped ==
  ASSUME QueueTyped
  PROVE  \A i \in DOMAIN queue : queue[i] \in Sh!Messages /\ queue[i].call \in Calls
<1>1. \A i \in DOMAIN queue : queue[i] \in Sh!Messages
  BY DEF QueueTyped
<1> QED BY <1>1 DEF Sh!Messages

\* Nothing happens on the screen, and who waits goes on.
MacCalm ==
  /\ UNCHANGED <<system, queue, active, sheet>>
  /\ \A d \in Calls :
       /\ Waits(d) => Waits(d)'
       /\ call[d] = "done" => call'[d] = "done"
       /\ call[d] \notin {"new", "staging", "present"} => call'[d] \notin {"new", "staging", "present"}

LEMMA CalmKeeps ==
  ASSUME ScreenTyped, QueueTyped, MacSheets, MacCalm
  PROVE  MacSheets'
<1> SUFFICES ASSUME system = "macos" PROVE MacSheets'
  BY DEF MacCalm, MacSheets
<1>0. \A i \in DOMAIN queue : queue[i].call \in Calls
  BY MessagesTyped
<1>1. active' # None => call'[active'] \notin {"new", "staging", "present"}
  BY DEF MacCalm, MacSheets, ScreenTyped
<1>2. ASSUME NEW d \in Calls PROVE UpOnMac(d)'
  <2>1. UpOnMac(d)
    BY DEF MacSheets
  <2>2. \A j : ClosedWithin(d, 0, j)' = ClosedWithin(d, 0, j)
    BY DEF MacCalm, ClosedWithin
  <2> QED BY <2>1, <2>2 DEF UpOnMac, MacCalm
<1>3. ASSUME NEW i \in DOMAIN queue PROVE QueuedOnMac(i)'
  <2>1. QueuedOnMac(i)
    BY DEF MacSheets
  <2>2. \A d \in Calls : \A j : ClosedWithin(d, i, j)' = ClosedWithin(d, i, j)
    BY DEF MacCalm, ClosedWithin
  <2> QED BY <1>0, <2>1, <2>2 DEF QueuedOnMac, MacCalm
<1> QED BY <1>1, <1>2, <1>3 DEF MacSheets, MacCalm

\* What is up is taken down, and its call may be told.
MacLowers ==
  /\ UNCHANGED <<system, call>> /\ active' \in {active, None}
  /\ active # None => sheet'[active] # "up"
  /\ \A d \in Calls : d # active => sheet'[d] = sheet[d] /\ reply'[d] = reply[d]

LEMMA LowersKeeps ==
  ASSUME Sh!ShareSheetAssumption, ScreenTyped, QueueTyped, MacSheets, MacLowers, UNCHANGED queue
  PROVE  MacSheets'
<1> SUFFICES ASSUME system = "macos" PROVE MacSheets'
  BY DEF MacLowers, MacSheets
<1>0. /\ \A i \in DOMAIN queue : queue[i].call \in Calls
      /\ None \notin Calls
  BY MessagesTyped DEF Sh!ShareSheetAssumption
<1>1. active' # None => call'[active'] \notin {"new", "staging", "present"}
  BY DEF MacLowers, MacSheets, ScreenTyped
<1>2. ASSUME NEW d \in Calls PROVE UpOnMac(d)'
  <2>1. sheet'[d] # "up"
    BY <1>0 DEF MacSheets, UpOnMac, MacLowers
  <2> QED BY <2>1 DEF UpOnMac
<1>3. ASSUME NEW i \in DOMAIN queue PROVE QueuedOnMac(i)'
  <2>1. QueuedOnMac(i)
    BY DEF MacSheets
  <2>2. \A d \in Calls : \A j : ClosedWithin(d, i, j)' = ClosedWithin(d, i, j)
    BY DEF ClosedWithin
  <2>3. \A d \in Calls : d # active => Waits(d)' = Waits(d) /\ active' # d
    BY <1>0 DEF MacLowers, Waits
  <2> QED BY <1>0, <2>1, <2>2, <2>3 DEF QueuedOnMac, MacLowers
<1> QED BY <1>1, <1>2, <1>3 DEF MacSheets, MacLowers

\* One message less: what is between two others stays there.
LEMMA Shifted ==
  ASSUME QueueTyped, NEW ps, NEW kind, Sh!HandlesOf(ps, kind), NEW d \in Calls,
         NEW i \in Nat, NEW j \in Nat, ClosedWithin(d, i + 1, j + 1)
  PROVE  ClosedWithin(d, i, j)'
<1>1. PICK k \in DOMAIN queue : i + 1 < k /\ k < j + 1 /\ queue[k] = Sh!Close(d)
  BY DEF ClosedWithin
<1>2. k \in Nat /\ k # 1
  BY <1>1, TakesHead
<1>3. k - 1 \in DOMAIN queue' /\ queue'[k - 1] = Sh!Close(d)
  BY <1>1, <1>2, TakesHead
<1>4. i < k - 1 /\ k - 1 < j
  BY <1>1, <1>2
<1> QED BY <1>3, <1>4 DEF ClosedWithin, Sh!Close

\* A message that is not about this call any more, or only to close it, moves up.
LEMMA MovesUp ==
  ASSUME QueueTyped, NEW ps, NEW kind, Sh!HandlesOf(ps, kind), NEW i \in DOMAIN queue',
         QueuedOnMac(i + 1), UNCHANGED call, NEW d \in Calls, d = queue[i + 1].call,
         queue[i + 1].kind = "show" => sheet'[d] = "none" /\ active' # d /\ (Waits(d) => Waits(d)')
  PROVE  QueuedOnMac(i)'
<1>1. /\ i \in Nat /\ i + 1 \in DOMAIN queue /\ queue'[i] = queue[i + 1]
      /\ DOMAIN queue \subseteq Nat /\ DOMAIN queue' \subseteq Nat
  BY TakesHead
<1>2. d = queue[i + 1].call
  OBVIOUS
<1>3. queue'[i].kind = "close" => call'[d] = "done"
  BY <1>1, <1>2 DEF QueuedOnMac
<1>4. ASSUME queue'[i].kind = "show"
      PROVE  Waits(d)' \/ (call'[d] = "done" /\ \E k \in DOMAIN queue' : i < k /\ queue'[k] = Sh!Close(d))
  <2>1. CASE Waits(d)
    BY <1>1, <1>2, <1>4, <2>1
  <2>2. CASE ~Waits(d)
    <3>1. call[d] = "done"
      BY <1>1, <1>2, <1>4, <2>2 DEF QueuedOnMac
    <3>2. PICK k \in DOMAIN queue : i + 1 < k /\ queue[k] = Sh!Close(d)
      BY <1>1, <1>2, <1>4, <2>2 DEF QueuedOnMac
    <3>3. k \in Nat /\ k # 1
      BY <1>1, <3>2
    <3>4. k - 1 \in DOMAIN queue' /\ queue'[k - 1] = Sh!Close(d) /\ i < k - 1
      BY <1>1, <3>2, <3>3, TakesHead
    <3> QED BY <3>1, <3>4
  <2> QED BY <2>1, <2>2
<1>5. ASSUME queue'[i].kind = "show", NEW j \in DOMAIN queue', i < j
      PROVE  /\ queue'[j].call # d => ClosedWithin(d, i, j)'
             /\ queue'[j].call = d => queue'[j].kind = "close"
  <2>1. j \in Nat /\ j + 1 \in DOMAIN queue /\ queue'[j] = queue[j + 1] /\ i + 1 < j + 1
    BY <1>1, <1>2, <1>5, TakesHead
  <2>2. /\ queue[j + 1].call # d => ClosedWithin(d, i + 1, j + 1)
        /\ queue[j + 1].call = d => queue[j + 1].kind = "close"
    BY <1>1, <1>2, <1>5, <2>1 DEF QueuedOnMac
  <2>3. ClosedWithin(d, i + 1, j + 1) => ClosedWithin(d, i, j)'
    BY <1>1, <1>2, <2>1, Shifted
  <2> QED BY <1>1, <1>2, <2>1, <2>2, <2>3
<1>6. queue'[i].kind = "show" => sheet'[d] = "none" /\ active' # d
  BY <1>1, <1>2
<1>7. queue'[i].call = d
  BY <1>1, <1>2
<1> QED BY <1>1, <1>3, <1>4, <1>5, <1>6, <1>7 DEF QueuedOnMac, Sh!Close


\* One message more, after all others.
LEMMA Extended ==
  ASSUME QueueTyped, NEW m \in Sh!Messages, Sh!post(m), NEW d \in Calls, NEW i \in Nat, NEW j \in Nat
  PROVE  /\ ClosedWithin(d, i, j) => ClosedWithin(d, i, j)'
         /\ j = Len(queue) + 1
              => \A k \in DOMAIN queue : i < k /\ queue[k] = Sh!Close(d) => ClosedWithin(d, i, j)'
<1>1. \A k \in DOMAIN queue : k \in DOMAIN queue' /\ queue'[k] = queue[k] /\ k < Len(queue) + 1
  BY PostsAtEnd
<1> QED BY <1>1 DEF ClosedWithin, Sh!Close

\* What holds of the others when a call's message is queued: it is one that is going,
\* so that what else is up or queued has its closing queued.
LEMMA PostKeeps ==
  ASSUME QueueTyped, MacSheets, system = "macos", UNCHANGED <<system, active, sheet>>,
         NEW c \in Calls, NEW m \in Sh!Messages, Sh!post(m), m.call = c,
         \A d \in Calls : d # c => ~Waits(d) /\ (call[d] = "done" => call'[d] = "done"),
         call[c] # "done",
         \/ m = Sh!Close(c) /\ call'[c] = "done"
         \/ sheet[c] = "none" /\ \A i \in DOMAIN queue : queue[i].call # c
  PROVE  /\ \A d \in Calls : UpOnMac(d)'
         /\ \A i \in DOMAIN queue : QueuedOnMac(i)'
<1> DEFINE n == Len(queue) + 1
<1>1. /\ DOMAIN queue \subseteq Nat /\ DOMAIN queue' = DOMAIN queue \cup {n} /\ n \in Nat
      /\ queue'[n] = m /\ \A i \in DOMAIN queue : queue'[i] = queue[i] /\ i < n
  <2>1. /\ DOMAIN queue = 1..Len(queue) /\ DOMAIN queue' = 1..(Len(queue) + 1) /\ Len(queue) \in Nat
        /\ queue'[Len(queue) + 1] = m
    BY PostsAtEnd
  <2>2. DOMAIN queue \subseteq Nat /\ \A i \in DOMAIN queue : queue'[i] = queue[i] /\ i < n
    BY <2>1, PostsAtEnd
  <2>3. \A i : i \in DOMAIN queue' <=> i \in DOMAIN queue \/ i = n
    BY <2>1
  <2> QED BY <2>1, <2>2, <2>3
<1>n. PICK z \in Nat : z = n
  BY <1>1
<1> HIDE DEF n
<1>2. \A d \in Calls : \A i, j \in Nat : ClosedWithin(d, i, j) => ClosedWithin(d, i, j)'
  BY Extended
<1>3. \A d \in Calls : \A i \in Nat : \A k \in DOMAIN queue :
        i < k /\ queue[k] = Sh!Close(d) => ClosedWithin(d, i, z)'
  BY <1>n, Extended DEF n
<1>4. ASSUME NEW d \in Calls PROVE UpOnMac(d)'
  <2> SUFFICES ASSUME sheet[d] = "up"
               PROVE  /\ active = d
                      /\ Waits(d)' \/ (call'[d] = "done" /\ \E k \in DOMAIN queue' : queue'[k] = Sh!Close(d))
                      /\ \A j \in DOMAIN queue' : queue'[j].call # d => ClosedWithin(d, 0, j)'
    BY DEF UpOnMac, Sh!Close
  <2>1. /\ active = d
        /\ Waits(d) \/ (call[d] = "done" /\ \E k \in DOMAIN queue : queue[k] = Sh!Close(d))
        /\ \A j \in DOMAIN queue : queue[j].call # d => ClosedWithin(d, 0, j)
    BY DEF MacSheets, UpOnMac
  <2>2. CASE d = c
    BY <1>1, <1>2, <1>n, <2>1, <2>2
  <2>3. CASE d # c
    <3>1. PICK k \in DOMAIN queue : queue[k] = Sh!Close(d) /\ call'[d] = "done" /\ k > 0
      BY <1>1, <2>1, <2>3, PostsAtEnd
    <3>2. ClosedWithin(d, 0, z)'
      BY <1>1, <1>3, <3>1
    <3> QED BY <1>1, <1>2, <1>n, <2>1, <2>3, <3>1, <3>2
  <2> QED BY <2>2, <2>3
<1>5. ASSUME NEW i \in DOMAIN queue PROVE QueuedOnMac(i)'
  <2>0. PICK d \in Calls : d = queue[i].call /\ d = queue'[i].call /\ queue'[i] = queue[i]
    BY <1>1, MessagesTyped
  <2>1. /\ queue[i].kind = "close" => call[d] = "done"
        /\ queue[i].kind = "show" =>
             /\ sheet[d] = "none" /\ active # d
             /\ Waits(d) \/ (call[d] = "done" /\ \E k \in DOMAIN queue : i < k /\ queue[k] = Sh!Close(d))
             /\ \A j \in DOMAIN queue : i < j =>
                  /\ queue[j].call # d => ClosedWithin(d, i, j)
                  /\ queue[j].call = d => queue[j].kind = "close"
    BY <2>0 DEF MacSheets, QueuedOnMac
  <2>2. queue'[i].kind = "close" => call'[d] = "done"
    BY <2>0, <2>1
  <2>3. ASSUME queue'[i].kind = "show"
        PROVE  /\ Waits(d)' \/ (call'[d] = "done" /\ \E k \in DOMAIN queue' : i < k /\ queue'[k] = Sh!Close(d))
               /\ \A j \in DOMAIN queue' : i < j =>
                    /\ queue'[j].call # d => ClosedWithin(d, i, j)'
                    /\ queue'[j].call = d => queue'[j].kind = "close"
    <3>1. CASE d = c
      BY <1>1, <1>2, <1>n, <2>0, <2>1, <2>3, <3>1 DEF Sh!Close
    <3>2. CASE d # c
      <4>1. PICK k \in DOMAIN queue : i < k /\ queue[k] = Sh!Close(d) /\ call'[d] = "done"
        BY <2>0, <2>1, <2>3, <3>2
      <4>2. ClosedWithin(d, i, z)'
        BY <1>1, <1>3, <4>1
      <4> QED BY <1>1, <1>2, <1>n, <2>0, <2>1, <2>3, <3>2, <4>1, <4>2
    <3> QED BY <3>1, <3>2
  <2> QED BY <2>0, <2>1, <2>2, <2>3 DEF QueuedOnMac, Sh!Close
<1> QED BY <1>4, <1>5

\* Steps of calls, and of what reports to them, that leave the screen alone.
LEMMA MacCalls ==
  ASSUME SheetBase, NEW c \in Calls,
         \/ Sh!Start(c) \/ Sh!Stage(c) \/ Sh!Cancel(c) \/ Sh!Await(c) \/ Sh!until_cancelled(c)
         \/ Sh!onReceive(c) \/ Sh!chooserResult(c)
  PROVE  MacCalm
<1> USE DEF Sh!callVars, Sh!windowVars, Sh!screenVars, Sh!androidVars, Sh!Goes, Sh!Ends,
   Sh!Returns, Sh!nothingShown, Sh!Received, Sh!elsewhere, MacCalm, Waits
<1>1. CASE Sh!Start(c)
  BY <1>1 DEF Sh!Start, SheetBase, CallsTyped
<1>2. CASE Sh!Stage(c)
  BY <1>2 DEF Sh!Stage, Sh!stage, SheetBase, CallsTyped
<1>3. CASE Sh!Cancel(c)
  BY <1>3 DEF Sh!Cancel
<1>4. CASE Sh!Await(c)
  BY <1>4 DEF Sh!Await, SheetBase, CallsTyped, ScreenTyped
<1>5. CASE Sh!until_cancelled(c)
  BY <1>5 DEF Sh!until_cancelled, SheetBase, CallsTyped
<1>6. CASE Sh!onReceive(c) \/ Sh!chooserResult(c)
  BY <1>6 DEF Sh!onReceive, Sh!chooserResult
<1> QED BY <1>1, <1>2, <1>3, <1>4, <1>5, <1>6

\* Of the calls that are going there is one.
LEMMA OthersWait ==
  ASSUME SheetBase, NEW c \in Calls, Going(c), NEW d \in Calls, d # c
  PROVE  ~Waits(d)
  BY DEF SheetBase, OneGoing, Going, Waits

\* A call that has not been presented has nothing queued.
LEMMA NothingQueued ==
  ASSUME SheetBase, NEW c \in Calls, call[c] = "present"
  PROVE  sheet[c] = "none" /\ \A i \in DOMAIN queue : queue[i].call # c
  BY DEF SheetBase, Posted, Where

LEMMA MacPresents ==
  ASSUME Sh!ShareSheetAssumption, SheetBase, MacSheets, NEW c \in Calls, Sh!present_macos(c)
  PROVE  MacSheets'
<1> USE DEF Sh!windowVars, Sh!screenVars, Sh!androidVars, Sh!Goes, Sh!presents
<1>1. /\ system = "macos" /\ call[c] = "present" /\ call' = [call EXCEPT ![c] = "waiting"]
      /\ Sh!post(Sh!Show(c)) /\ UNCHANGED <<system, active, sheet, reply>>
  BY DEF Sh!present_macos
<1>2. Sh!Show(c) \in Sh!Messages /\ Sh!Show(c).call = c /\ Sh!Show(c).kind = "show"
  BY DEF Sh!Show, Sh!Messages
<1>3. /\ QueueTyped /\ QueueTyped' /\ Len(queue) \in Nat /\ DOMAIN queue' = 1..(Len(queue) + 1)
      /\ queue'[Len(queue) + 1] = Sh!Show(c)
  BY <1>1, <1>2, PostsAtEnd DEF SheetBase
<1>4. sheet[c] = "none" /\ \A i \in DOMAIN queue : queue[i].call # c
  BY <1>1, NothingQueued
<1>5. /\ \A d \in Calls : d # c => ~Waits(d) /\ (call[d] = "done" => call'[d] = "done")
      /\ call'[c] = "waiting" /\ call[c] # "done"
  BY <1>1, OthersWait DEF SheetBase, CallsTyped, Going
<1>6. /\ \A d \in Calls : UpOnMac(d)'
      /\ \A i \in DOMAIN queue : QueuedOnMac(i)'
  BY <1>1, <1>2, <1>3, <1>4, <1>5, PostKeeps
<1>7. PICK n \in Nat : n = Len(queue) + 1 /\ queue'[n] = Sh!Show(c)
  BY <1>3
<1>8. QueuedOnMac(n)'
  <2>1. reply[c] = None /\ active # c
    BY <1>1 DEF SheetBase, Where, MacSheets, Sh!ShareSheetAssumption
  <2>2. Waits(c)'
    BY <1>1, <1>5, <2>1 DEF Waits
  <2>3. \A j \in DOMAIN queue' : ~(n < j)
    BY <1>3, <1>7
  <2> QED BY <1>1, <1>2, <1>4, <1>7, <2>1, <2>2, <2>3 DEF QueuedOnMac
<1>9. active' # None => call'[active'] \notin {"new", "staging", "present"}
  BY <1>1 DEF MacSheets, SheetBase, CallsTyped, ScreenTyped
<1>10. \A i \in DOMAIN queue' : i \in DOMAIN queue \/ i = n
  BY <1>1, <1>2, <1>3, <1>7, PostsAtEnd
<1> QED BY <1>6, <1>8, <1>9, <1>10 DEF MacSheets

LEMMA MacEnds ==
  ASSUME Sh!ShareSheetAssumption, SheetBase, MacSheets, NEW c \in Calls, Sh!EndCancelled(c), system = "macos"
  PROVE  MacSheets'
<1> USE DEF Sh!windowVars, Sh!androidVars, Sh!Ends, Sh!Returns, Sh!Received
<1>1. /\ call[c] = "cancelling" /\ call' = [call EXCEPT ![c] = "done"]
      /\ Sh!post(Sh!Close(c)) /\ UNCHANGED <<system, active, sheet>>
  BY DEF Sh!EndCancelled
<1>2. Sh!Close(c) \in Sh!Messages /\ Sh!Close(c).call = c /\ Sh!Close(c).kind = "close"
  BY DEF Sh!Close, Sh!Messages
<1>3. /\ QueueTyped /\ QueueTyped' /\ Len(queue) \in Nat /\ DOMAIN queue' = 1..(Len(queue) + 1)
      /\ queue'[Len(queue) + 1] = Sh!Close(c)
  BY <1>1, <1>2, PostsAtEnd DEF SheetBase
<1>5. /\ \A d \in Calls : d # c => ~Waits(d) /\ (call[d] = "done" => call'[d] = "done")
      /\ call'[c] = "done" /\ call[c] # "done"
  BY <1>1, OthersWait DEF SheetBase, CallsTyped, Going
<1>6. /\ \A d \in Calls : UpOnMac(d)'
      /\ \A i \in DOMAIN queue : QueuedOnMac(i)'
  BY <1>1, <1>2, <1>3, <1>5, PostKeeps
<1>7. PICK n \in Nat : n = Len(queue) + 1 /\ queue'[n] = Sh!Close(c)
  BY <1>3
<1>8. QueuedOnMac(n)'
  BY <1>2, <1>5, <1>7 DEF QueuedOnMac
<1>9. active' # None => call'[active'] \notin {"new", "staging", "present"}
  BY <1>1 DEF MacSheets, SheetBase, CallsTyped, ScreenTyped
<1>10. \A i \in DOMAIN queue' : i \in DOMAIN queue \/ i = n
  BY <1>1, <1>2, <1>3, <1>7, PostsAtEnd
<1> QED BY <1>6, <1>8, <1>9, <1>10 DEF MacSheets

\* When a sheet is to be put up nothing is up, and its call has no other message to show it.
LEMMA MacShows ==
  ASSUME Sh!ShareSheetAssumption, SheetBase, MacSheets, Sh!show_macos
  PROVE  MacSheets'
<1> USE DEF Sh!callVars, Sh!windowVars, Sh!androidVars, Sh!Sends, Sh!Screen
<1>0. Sh!HandlesOf({"macos"}, "show") /\ QueueTyped
  BY DEF Sh!show_macos, SheetBase
<1>1. PICK x \in Calls : x = Head(queue).call /\ x = queue[1].call
  BY <1>0, TakesHead
<1>2. /\ system = "macos" /\ system' = system /\ queue[1].kind = "show" /\ 1 \in DOMAIN queue
      /\ DOMAIN queue \subseteq Nat /\ DOMAIN queue' \subseteq Nat
      /\ \A i \in DOMAIN queue' : i + 1 \in DOMAIN queue /\ queue'[i] = queue[i + 1] /\ i >= 1
  BY <1>0, TakesHead DEF Sh!show_macos
<1>3. /\ sheet[x] = "none" /\ active # x
      /\ Waits(x) \/ (call[x] = "done" /\ \E k \in DOMAIN queue : 1 < k /\ queue[k] = Sh!Close(x))
      /\ \A j \in DOMAIN queue : 1 < j =>
           /\ queue[j].call # x => ClosedWithin(x, 1, j)
           /\ queue[j].call = x => queue[j].kind = "close"
  BY <1>1, <1>2 DEF MacSheets, QueuedOnMac
<1>4. ASSUME NEW d \in Calls PROVE sheet[d] # "up"
  <2>1. d # x => ~ClosedWithin(d, 0, 1)
    BY <1>2 DEF ClosedWithin
  <2> QED BY <1>1, <1>2, <1>3, <2>1 DEF MacSheets, UpOnMac
<1>5. /\ UNCHANGED call
      /\ \A d \in Calls : d # x => sheet'[d] = sheet[d] /\ reply'[d] = reply[d]
      /\ \/ UNCHANGED <<sheet, active>>
         \/ sheet'[x] = "up" /\ active' = x /\ UNCHANGED reply
  BY <1>1 DEF Sh!show_macos, Sh!build_items_fails, SheetBase, ScreenTyped
<1>6. ASSUME NEW i \in DOMAIN queue' PROVE QueuedOnMac(i)'
  <2>1. PICK d \in Calls : d = queue[i + 1].call
    BY <1>0, <1>2, MessagesTyped
  <2>2. QueuedOnMac(i + 1)
    BY <1>2 DEF MacSheets
  <2>3. ASSUME queue[i + 1].kind = "show" PROVE sheet'[d] = "none" /\ active' # d
               /\ (Waits(d) => Waits(d)')
    <3>1. d # x
      <4>1. 1 < i + 1 /\ i + 1 \in DOMAIN queue
        BY <1>2
      <4> QED BY <1>3, <2>1, <2>3, <4>1
    <3>2. sheet[d] = "none" /\ active # d
      BY <2>1, <2>2, <2>3 DEF QueuedOnMac
    <3> QED BY <1>5, <3>1, <3>2 DEF Waits
  <2> QED BY <1>0, <1>5, <2>1, <2>2, <2>3, MovesUp
<1>7. ASSUME NEW d \in Calls PROVE UpOnMac(d)'
  <2> SUFFICES ASSUME sheet'[d] = "up" PROVE UpOnMac(d)'
    BY DEF UpOnMac
  <2>1. d = x /\ active' = x /\ UNCHANGED reply
    BY <1>4, <1>5
  <2>2. Waits(x)' \/ (call'[x] = "done" /\ \E k \in DOMAIN queue' : queue'[k] = Sh!Close(x))
    <3>1. CASE Waits(x)
      BY <1>5, <2>1, <3>1 DEF Waits
    <3>2. ASSUME ~Waits(x)
          PROVE  call'[x] = "done" /\ \E k \in DOMAIN queue' : queue'[k] = Sh!Close(x)
      <4>1. PICK k \in DOMAIN queue : 1 < k /\ queue[k] = Sh!Close(x) /\ call[x] = "done"
        BY <1>3, <3>2
      <4>2. k # 1
        BY <1>2, <4>1
      <4> QED BY <1>0, <1>5, <4>1, <4>2, TakesHead
    <3> QED BY <3>1, <3>2
  <2>3. ASSUME NEW j \in DOMAIN queue', queue'[j].call # x PROVE ClosedWithin(x, 0, j)'
    <3>1. j \in Nat /\ j + 1 \in DOMAIN queue /\ queue[j + 1].call # x /\ 1 < j + 1
      BY <1>2, <2>3
    <3>2. ClosedWithin(x, 0 + 1, j + 1)
      BY <1>3, <3>1
    <3> QED BY <1>0, <3>1, <3>2, Shifted
  <2> QED BY <2>1, <2>2, <2>3 DEF UpOnMac, Sh!Close
<1>8. active' # None => call'[active'] \notin {"new", "staging", "present"}
  BY <1>2, <1>3, <1>5 DEF MacSheets, Waits
<1> QED BY <1>2, <1>6, <1>7, <1>8 DEF MacSheets

\* A picker that is closed is that of the message's call; what is queued moves up.
LEMMA MacCloses ==
  ASSUME Sh!ShareSheetAssumption, SheetBase, MacSheets, Sh!close_macos
  PROVE  MacSheets'
<1> USE DEF Sh!callVars, Sh!windowVars, Sh!androidVars, Sh!Sends, Sh!Screen, Sh!finish
<1>0. Sh!HandlesOf({"macos"}, "close") /\ QueueTyped
  BY DEF Sh!close_macos, SheetBase
<1>1. PICK x \in Calls : x = Head(queue).call /\ x = queue[1].call
  BY <1>0, TakesHead
<1>2. /\ system = "macos" /\ system' = system /\ queue[1].kind = "close" /\ 1 \in DOMAIN queue
      /\ \A i \in DOMAIN queue' : i + 1 \in DOMAIN queue /\ queue'[i] = queue[i + 1] /\ i >= 1
  BY <1>0, TakesHead DEF Sh!close_macos
<1>3. call[x] = "done"
  BY <1>1, <1>2 DEF MacSheets, QueuedOnMac
<1>4. active # None /\ sheet[active] = "up" => active = x
  BY <1>0, <1>1, ClosesOwn
<1>5. /\ UNCHANGED call /\ active' \in {active, None} /\ None \notin Calls
      /\ active # None => active \in Calls /\ sheet'[active] # "up"
      /\ \A d \in Calls : d # active => sheet'[d] = sheet[d]
      /\ \A d \in Calls : d # x => reply'[d] = reply[d]
  BY <1>4 DEF Sh!close_macos, SheetBase, ScreenTyped, Sh!ShareSheetAssumption
<1>6. ASSUME NEW i \in DOMAIN queue' PROVE QueuedOnMac(i)'
  <2>1. PICK d \in Calls : d = queue[i + 1].call
    BY <1>0, <1>2, MessagesTyped
  <2>2. QueuedOnMac(i + 1)
    BY <1>2 DEF MacSheets
  <2>3. ASSUME queue[i + 1].kind = "show" PROVE sheet'[d] = "none" /\ active' # d
               /\ (Waits(d) => Waits(d)')
    <3>1. sheet[d] = "none" /\ active # d
      BY <2>1, <2>2, <2>3 DEF QueuedOnMac
    <3> QED BY <1>3, <1>5, <3>1 DEF Waits
  <2> QED BY <1>0, <1>5, <2>1, <2>2, <2>3, MovesUp
<1>7. ASSUME NEW d \in Calls PROVE UpOnMac(d)'
  <2>1. sheet'[d] # "up"
    BY <1>2, <1>5 DEF MacSheets, UpOnMac
  <2> QED BY <2>1 DEF UpOnMac
<1>8. active' # None => call'[active'] \notin {"new", "staging", "present"}
  BY <1>2, <1>5 DEF MacSheets
<1> QED BY <1>2, <1>6, <1>7, <1>8 DEF MacSheets

\* The delegate and its timeout take down what is up.
LEMMA MacLeaves ==
  ASSUME Sh!ShareSheetAssumption, SheetBase, MacSheets, system = "macos", NEW c \in Calls,
         Sh!did_choose(c) \/ Sh!did_share(c) \/ Sh!did_fail(c) \/ Sh!schedule_service_timeout(c)
  PROVE  MacSheets'
<1> USE DEF Sh!callVars, Sh!windowVars, Sh!androidVars, Sh!Sends, Sh!Screen, Sh!UserDid,
   Sh!elsewhere, Sh!finish
<1>1. \A d \in Calls : sheet[d] = "up" => active = d
  BY DEF MacSheets, UpOnMac
<1>2. UNCHANGED queue
  BY DEF Sh!did_choose, Sh!did_share, Sh!did_fail, Sh!schedule_service_timeout
<1>3. MacLowers \/ MacCalm
  <2>1. CASE Sh!did_choose(c)
    BY <2>1 DEF Sh!did_choose, MacLowers, SheetBase, ScreenTyped
  <2>2. CASE Sh!did_share(c)
    BY <2>2 DEF Sh!did_share, MacLowers, SheetBase, ScreenTyped
  <2>3. CASE Sh!did_fail(c)
    BY <2>3 DEF Sh!did_fail, MacLowers, SheetBase, ScreenTyped
  <2>4. CASE Sh!schedule_service_timeout(c)
    <3>1. CASE active = c
      BY <2>4, <3>1 DEF Sh!schedule_service_timeout, MacLowers, SheetBase, ScreenTyped
    <3>2. CASE active # c
      BY <2>4, <3>2 DEF Sh!schedule_service_timeout, MacCalm, Waits
    <3> QED BY <3>1, <3>2
  <2> QED BY <2>1, <2>2, <2>3, <2>4
<1> QED BY <1>2, <1>3, CalmKeeps, LowersKeeps DEF SheetBase
-----------------------------------------------------------------------------
\* The platform is what it is.
LEMMA SystemStays ==
  ASSUME Sh!Next
  PROVE  system' = system
<1> USE DEF Sh!callVars, Sh!windowVars, Sh!screenVars, Sh!androidVars, Sh!Goes, Sh!Ends,
   Sh!Returns, Sh!nothingShown, Sh!presents, Sh!Received, Sh!Sends, Sh!Screen, Sh!UserDid,
   Sh!elsewhere, Sh!finish
<1>1. ASSUME NEW c \in Calls, Sh!Runs(c) PROVE system' = system
  BY <1>1 DEF Sh!Runs, Sh!Stage, Sh!Present, Sh!present_windows, Sh!present_macos, Sh!present_ios,
    Sh!present_android, Sh!Await, Sh!until_cancelled, Sh!EndCancelled, Sh!onCancel, Sh!Resumed,
    Sh!awaitChosen, Sh!cancelCoroutine, Sh!unlock
<1>2. ASSUME NEW c \in Calls, Sh!Leaves(c) PROVE system' = system
  BY <1>2 DEF Sh!Leaves, Sh!ShareCompleted, Sh!ShareCanceled, Sh!did_choose,
    Sh!completionWithItemsHandler, Sh!LeaveChooser
<1>3. CASE Sh!Handled
  BY <1>3 DEF Sh!Handled, Sh!subclass_proc, Sh!show_macos, Sh!close_macos, Sh!dismiss,
     Sh!chooserResume
<1>4. ASSUME NEW c \in Calls,
             \/ Sh!Start(c) \/ Sh!Cancel(c) \/ Sh!did_share(c) \/ Sh!did_fail(c)
             \/ Sh!schedule_service_timeout(c) \/ Sh!onReceive(c) \/ Sh!chooserResult(c)
      PROVE  system' = system
  BY <1>4 DEF Sh!Start, Sh!Cancel, Sh!did_share, Sh!did_fail, Sh!schedule_service_timeout,
    Sh!onReceive, Sh!chooserResult
<1>5. CASE Sh!purge_staged \/ \E h \in Handles : \/ Sh!OpenWindow(h) \/ Sh!Register(h)
                                                  \/ Sh!Unregister(h) \/ Sh!Destroy(h)
  BY <1>5 DEF Sh!purge_staged, Sh!OpenWindow, Sh!Register, Sh!Unregister, Sh!Destroy, Sh!windowsOnly
<1> QED BY <1>1, <1>2, <1>3, <1>4, <1>5 DEF Sh!Next

LEMMA BaseStep ==
  ASSUME Sh!ShareSheetAssumption, SheetBase, MacSheets, Sh!Next
  PROVE  SheetBase'
<1>1. ASSUME NEW c \in Calls, Sh!Runs(c) PROVE SheetBase'
  BY <1>1, SheetStage, SheetPresentWindows, SheetPresentMacos, SheetPresentIos, SheetPresentAndroid,
    SheetAwait, SheetUntilCancelled, SheetEndCancelled, SheetOnCancel, SheetResumed, SheetGrace,
    SheetCoroutine, SheetUnlock
  DEF Sh!Runs, Sh!Present
<1>2. ASSUME NEW c \in Calls, Sh!Leaves(c) PROVE SheetBase'
  BY <1>2, SheetCompleted, SheetCanceled, SheetChoose, SheetCompletes, SheetLeaveChooser
     DEF Sh!Leaves
<1>3. CASE Sh!Handled
  BY <1>3, SheetSubclass, SheetShowMacos, SheetCloseMacos, SheetDismiss, SheetResume DEF Sh!Handled
<1>4. ASSUME NEW c \in Calls,
             \/ Sh!Start(c) \/ Sh!Cancel(c) \/ Sh!did_share(c) \/ Sh!did_fail(c)
             \/ Sh!schedule_service_timeout(c) \/ Sh!onReceive(c) \/ Sh!chooserResult(c)
      PROVE  SheetBase'
  BY <1>4, SheetStart, SheetCancel, SheetShared, SheetFails, SheetTimeout, SheetReceive, SheetResult
<1>5. CASE Sh!purge_staged \/ \E h \in Handles : \/ Sh!OpenWindow(h) \/ Sh!Register(h)
                                                  \/ Sh!Unregister(h) \/ Sh!Destroy(h)
  BY <1>5, SheetElsewhere
<1> QED BY <1>1, <1>2, <1>3, <1>4, <1>5 DEF Sh!Next

LEMMA MacStep ==
  ASSUME Sh!ShareSheetAssumption, SheetBase, MacSheets, Sh!Next
  PROVE  MacSheets'
<1>0. system' = system
  BY SystemStays
<1> SUFFICES ASSUME system = "macos" PROVE MacSheets'
  BY <1>0 DEF MacSheets
<1>1. ASSUME NEW c \in Calls, Sh!Runs(c) PROVE MacSheets'
  <2>1. call[c] # "grace"
    BY DEF SheetBase, Where
  <2>2. Sh!Stage(c) \/ Sh!present_macos(c) \/ Sh!Await(c) \/ Sh!until_cancelled(c) \/ Sh!EndCancelled(c)
    BY <1>1, <2>1
    DEF Sh!Runs, Sh!Present, Sh!present_windows, Sh!present_ios, Sh!present_android, Sh!Windows,
      Sh!onCancel, Sh!Resumed, Sh!awaitChosen, Sh!cancelCoroutine, Sh!unlock
  <2> QED BY <2>2, MacCalls, CalmKeeps, MacPresents, MacEnds DEF SheetBase
<1>2. ASSUME NEW c \in Calls, Sh!Leaves(c) PROVE MacSheets'
  <2>1. Sh!did_choose(c)
    BY <1>2 DEF Sh!Leaves, Sh!ShareCompleted, Sh!ShareCanceled, Sh!completionWithItemsHandler,
      Sh!LeaveChooser, Sh!Windows
  <2> QED BY <2>1, MacLeaves
<1>3. CASE Sh!Handled
  <2>1. taken = None
    BY DEF SheetBase, Activity
  <2>2. Sh!show_macos \/ Sh!close_macos
    BY <1>3, <2>1 DEF Sh!Handled, Sh!subclass_proc, Sh!dismiss, Sh!chooserResume, Sh!HandlesOf,
       Sh!Windows
  <2> QED BY <2>2, MacShows, MacCloses
<1>4. ASSUME NEW c \in Calls,
             \/ Sh!Start(c) \/ Sh!Cancel(c) \/ Sh!did_share(c) \/ Sh!did_fail(c)
             \/ Sh!schedule_service_timeout(c) \/ Sh!onReceive(c) \/ Sh!chooserResult(c)
      PROVE  MacSheets'
  BY <1>4, MacCalls, CalmKeeps, MacLeaves DEF SheetBase
<1>5. CASE Sh!purge_staged \/ \E h \in Handles : \/ Sh!OpenWindow(h) \/ Sh!Register(h)
                                                  \/ Sh!Unregister(h) \/ Sh!Destroy(h)
  <2>1. MacCalm
    BY <1>5, SheetElsewhere DEF MacCalm, Waits
  <2> QED BY <2>1, CalmKeeps DEF SheetBase
<1> QED BY <1>1, <1>2, <1>3, <1>4, <1>5 DEF Sh!Next

\* On iOS a sheet is put up for a call that goes on to wait, and whoever answers
\* that call has taken it down.
LEMMA IosStep ==
  ASSUME Sh!ShareSheetAssumption, SheetBase, IosSheets, Sh!Next
  PROVE  IosSheets'
<1>0. system' = system
  BY SystemStays
<1> SUFFICES ASSUME system = "ios", NEW d \in Calls PROVE IosUp(d)'
  BY <1>0 DEF IosSheets
<1>d. IosUp(d)
  BY DEF IosSheets
<1>w. Where(d) /\ CallsTyped /\ ScreenTyped /\ QueueTyped
  BY DEF SheetBase
<1>1. ASSUME NEW c \in Calls, Sh!Runs(c) PROVE IosUp(d)'
  <2> USE DEF IosUp, Sh!callVars, Sh!windowVars, Sh!screenVars, Sh!androidVars, Sh!Goes, Sh!Ends,
     Sh!Returns, Sh!nothingShown, Sh!presents, Sh!Received, Sh!Sends, Sh!Screen, Sh!UserDid,
     Sh!elsewhere, Sh!finish, Sh!once
  <2>1. Sh!Stage(c) \/ Sh!present_ios(c) \/ Sh!Await(c) \/ Sh!onCancel(c)
    <3>1. Where(c)
      BY DEF SheetBase
    <3> QED BY <1>1, <3>1
    DEF Sh!Runs, Sh!Present, Sh!present_windows, Sh!present_macos, Sh!present_android, Sh!Windows,
       Sh!Desktop,
      Sh!until_cancelled, Sh!EndCancelled, Sh!Resumed, Sh!awaitChosen, Sh!cancelCoroutine, Sh!unlock, Where
  <2>2. CASE Sh!Stage(c)
    BY <1>d, <1>w, <2>2 DEF Sh!Stage, Sh!stage, CallsTyped
  <2>3. CASE Sh!present_ios(c)
    BY <1>d, <1>w, <2>3 DEF Sh!present_ios, CallsTyped, ScreenTyped, Where
  <2>4. CASE Sh!Await(c)
    BY <1>d, <1>w, <2>4 DEF Sh!Await, CallsTyped, ScreenTyped
  <2>5. CASE Sh!onCancel(c)
    BY <1>d, <1>w, <2>5 DEF Sh!onCancel, CallsTyped
  <2> QED BY <2>1, <2>2, <2>3, <2>4, <2>5
<1>2. ASSUME NEW c \in Calls, Sh!Leaves(c) PROVE IosUp(d)'
  <2> USE DEF IosUp, Sh!callVars, Sh!windowVars, Sh!screenVars, Sh!androidVars, Sh!Goes, Sh!Ends,
     Sh!Returns, Sh!nothingShown, Sh!presents, Sh!Received, Sh!Sends, Sh!Screen, Sh!UserDid,
     Sh!elsewhere, Sh!finish, Sh!once
  <2>1. Sh!completionWithItemsHandler(c)
    BY <1>2 DEF Sh!Leaves, Sh!ShareCompleted, Sh!ShareCanceled, Sh!did_choose, Sh!LeaveChooser,
       Sh!Windows
  <2> QED BY <1>d, <1>w, <2>1 DEF Sh!completionWithItemsHandler, ScreenTyped
<1>3. CASE Sh!Handled
  <2> USE DEF IosUp, Sh!callVars, Sh!windowVars, Sh!screenVars, Sh!androidVars, Sh!Goes, Sh!Ends,
     Sh!Returns, Sh!nothingShown, Sh!presents, Sh!Received, Sh!Sends, Sh!Screen, Sh!UserDid,
     Sh!elsewhere, Sh!finish, Sh!once
  <2>1. taken = None
    BY DEF SheetBase, Activity
  <2>2. Sh!dismiss
    BY <1>3, <2>1
    DEF Sh!Handled, Sh!subclass_proc, Sh!show_macos, Sh!close_macos, Sh!chooserResume,
       Sh!HandlesOf, Sh!Windows
  <2> QED BY <1>d, <1>w, <2>2 DEF Sh!dismiss, ScreenTyped
<1>4. ASSUME NEW c \in Calls,
             \/ Sh!Start(c) \/ Sh!Cancel(c) \/ Sh!did_share(c) \/ Sh!did_fail(c)
             \/ Sh!schedule_service_timeout(c) \/ Sh!onReceive(c) \/ Sh!chooserResult(c)
      PROVE  IosUp(d)'
  <2> USE DEF IosUp, Sh!callVars, Sh!windowVars, Sh!screenVars, Sh!androidVars, Sh!Goes, Sh!Ends,
     Sh!Returns, Sh!nothingShown, Sh!presents, Sh!Received, Sh!Sends, Sh!Screen, Sh!UserDid,
     Sh!elsewhere, Sh!finish, Sh!once
  <2>1. CASE Sh!Start(c)
    BY <1>d, <1>w, <2>1 DEF Sh!Start, CallsTyped, Where
  <2>2. ~Sh!schedule_service_timeout(c)
    BY DEF Sh!schedule_service_timeout, SheetBase, Told
  <2>3. CASE Sh!Cancel(c) \/ Sh!onReceive(c) \/ Sh!chooserResult(c)
    BY <1>d, <2>3 DEF Sh!Cancel, Sh!onReceive, Sh!chooserResult
  <2> QED BY <1>4, <2>1, <2>2, <2>3 DEF Sh!did_share, Sh!did_fail
<1>5. CASE Sh!purge_staged \/ \E h \in Handles : \/ Sh!OpenWindow(h) \/ Sh!Register(h)
                                                  \/ Sh!Unregister(h) \/ Sh!Destroy(h)
  BY <1>d, <1>5, SheetElsewhere DEF IosUp
<1> QED BY <1>1, <1>2, <1>3, <1>4, <1>5 DEF Sh!Next

LEMMA SheetStep ==
  ASSUME Sh!ShareSheetAssumption, SheetInv, [Sh!Next]_sheetVars
  PROVE  SheetInv'
<1>1. CASE Sh!Next
  BY <1>1, BaseStep, IosStep, MacStep DEF SheetInv
<1>2. CASE UNCHANGED sheetVars
  BY <1>2
  DEF sheetVars, SheetInv, SheetBase, CallsTyped, WindowsTyped, ScreenTyped, QueueTyped, OneGoing,
     Going,
    Activity, Posted, Where, Told, IosSheets, IosUp, MacSheets, UpOnMac, QueuedOnMac, ClosedWithin, Waits, Sh!Close
<1> QED BY <1>1, <1>2

LEMMA SheetStarts ==
  ASSUME Sh!ShareSheetAssumption, Sh!Init
  PROVE  SheetInv
<1>1. CallsTyped /\ WindowsTyped
  BY DEF Sh!Init, CallsTyped, WindowsTyped, Steps
<1>2. ScreenTyped /\ QueueTyped
  BY DEF Sh!Init, ScreenTyped, QueueTyped, Replies
<1>3. OneGoing /\ Activity /\ Posted
  BY DEF Sh!Init, OneGoing, Going, Activity, Posted
<1>4. \A c \in Calls : Where(c) /\ Told(c)
  BY DEF Sh!Init, Where, Told, Sh!ShareSheetAssumption, Sh!Answers, Sh!Outcomes, Sh!Errors
<1>5. IosSheets /\ MacSheets
  BY DEF Sh!Init, IosSheets, IosUp, MacSheets, UpOnMac, QueuedOnMac
<1> QED BY <1>1, <1>2, <1>3, <1>4, <1>5 DEF SheetInv, SheetBase

\* Whatever calls, windows and platforms: where a sheet can be dismissed there is one
\* at a time, that of an unanswered call or one that is about to be closed; macOS
\* closes the picker of the call that asked; and a call is told what the user did
\* on its own sheet (share lib.rs, desktop/*.rs, ShareRuntime.swift, Share.kt).
THEOREM SheetsAlwaysServe == SharesSpec => []SheetsServeCalls
<1>0. Sh!ShareSheetAssumption
  BY SharesAssumption
<1>1. SharesInit => SheetInv
  BY <1>0, SheetStarts DEF SharesInit
<1>2. SheetInv /\ [SharesNext]_shareVars => SheetInv'
  BY <1>0, SheetStep DEF SharesNext, shareVars
<1>3. SheetInv => SheetsServeCalls
  <2> SUFFICES ASSUME SheetInv PROVE SheetsServeCalls
    OBVIOUS
  <2>0. \A c \in Calls : Where(c) /\ Told(c)
    BY DEF SheetInv, SheetBase
  <2>1. Sh!TypeOK
    <3>1. CallsTyped /\ WindowsTyped /\ ScreenTyped /\ QueueTyped
      BY DEF SheetInv, SheetBase
    <3> QED BY <2>0, <3>1
    DEF Sh!TypeOK, CallsTyped, WindowsTyped, ScreenTyped, QueueTyped, Steps, Replies, Where
  <2>2. ASSUME system \in Sh!Dismissing
        PROVE  /\ \A c, d \in Calls : sheet[c] = "up" /\ sheet[d] = "up" => c = d
               /\ \A c \in Calls : sheet[c] = "up" /\ call[c] = "done"
                                     => \E i \in DOMAIN queue : queue[i] = Sh!Close(c)
    <3>1. CASE system = "ios"
      BY <3>1 DEF SheetInv, IosSheets, IosUp, SheetBase, OneGoing, Going
    <3>2. CASE system = "macos"
      BY <3>2 DEF SheetInv, MacSheets, UpOnMac, Waits
    <3> QED BY <2>2, <3>1, <3>2 DEF Sh!Dismissing
  <2>3. ASSUME system = "macos", active # None, sheet[active] = "up", queue # <<>>, Head(queue).kind = "close"
        PROVE  active = Head(queue).call
    <3>1. active \in Calls /\ QueueTyped
      BY <2>3 DEF SheetInv, SheetBase, ScreenTyped
    <3>2. 1 \in DOMAIN queue /\ Head(queue) = queue[1] /\ DOMAIN queue \subseteq Nat
      <4>1. queue # <<>>
        BY <2>3
      <4> QED BY <3>1, <4>1 DEF QueueTyped
    <3>3. ~ClosedWithin(active, 0, 1)
      BY <3>2 DEF ClosedWithin
    <3> QED BY <2>3, <3>1, <3>2, <3>3 DEF SheetInv, MacSheets, UpOnMac
  <2>4. Sh!OwnOutcome
    BY <2>0 DEF Sh!OwnOutcome, Told
  <2> QED BY <2>1, <2>2, <2>3, <2>4 DEF SheetsServeCalls, Sh!SheetsFollowCalls
<1> QED BY <1>1, <1>2, <1>3, PTL DEF SharesSpec

LEMMA LateStep ==
  ASSUME SheetBase, Sh!Next, NEW d \in Calls, sheet'[d] = "up", sheet[d] # "up"
  PROVE  call[d] # "done" \/ system = "macos"
<1> SUFFICES ASSUME system # "macos" PROVE call[d] # "done"
  OBVIOUS
<1>w. ScreenTyped /\ QueueTyped /\ (d \in jobs => call[d] # "done")
  BY DEF SheetBase, Where
<1>1. ASSUME NEW c \in Calls, Sh!Runs(c) PROVE call[d] # "done"
  <2> USE DEF Sh!callVars, Sh!windowVars, Sh!screenVars, Sh!androidVars, Sh!Goes, Sh!Ends,
     Sh!Returns, Sh!nothingShown, Sh!presents, Sh!Received, Sh!Sends, Sh!Screen, Sh!UserDid,
     Sh!elsewhere, Sh!finish
  <2>1. Sh!present_ios(c) \/ Sh!present_android(c)
    BY <1>1
    DEF Sh!Runs, Sh!Present, Sh!present_windows, Sh!present_macos, Sh!Stage, Sh!stage, Sh!Await,
      Sh!until_cancelled, Sh!EndCancelled, Sh!onCancel, Sh!Resumed, Sh!awaitChosen, Sh!cancelCoroutine, Sh!unlock
  <2> QED BY <1>w, <2>1 DEF Sh!present_ios, Sh!present_android, ScreenTyped
<1>2. ASSUME NEW c \in Calls, Sh!Leaves(c) PROVE call[d] # "done"
  <2> USE DEF Sh!callVars, Sh!windowVars, Sh!screenVars, Sh!androidVars, Sh!Goes, Sh!Ends,
     Sh!Returns, Sh!nothingShown, Sh!presents, Sh!Received, Sh!Sends, Sh!Screen, Sh!UserDid,
     Sh!elsewhere, Sh!finish
  <2> QED BY <1>2, <1>w
  DEF Sh!Leaves, Sh!ShareCompleted, Sh!ShareCanceled, Sh!did_choose, Sh!completionWithItemsHandler,
    Sh!LeaveChooser, ScreenTyped
<1>3. CASE Sh!Handled
  <2> USE DEF Sh!callVars, Sh!windowVars, Sh!screenVars, Sh!androidVars, Sh!Goes, Sh!Ends,
     Sh!Returns, Sh!nothingShown, Sh!presents, Sh!Received, Sh!Sends, Sh!Screen, Sh!UserDid,
     Sh!elsewhere, Sh!finish
  <2>1. CASE Sh!subclass_proc
    BY <1>w, <2>1 DEF Sh!subclass_proc, Sh!show_windows, ScreenTyped
  <2>2. CASE Sh!dismiss \/ Sh!chooserResume
    BY <1>w, <2>2 DEF Sh!dismiss, Sh!chooserResume, ScreenTyped
  <2> QED BY <1>3, <2>1, <2>2 DEF Sh!Handled, Sh!show_macos, Sh!close_macos, Sh!HandlesOf
<1>4. ASSUME NEW c \in Calls,
             \/ Sh!Start(c) \/ Sh!Cancel(c) \/ Sh!did_share(c) \/ Sh!did_fail(c)
             \/ Sh!schedule_service_timeout(c) \/ Sh!onReceive(c) \/ Sh!chooserResult(c)
      PROVE  call[d] # "done"
  <2> USE DEF Sh!callVars, Sh!windowVars, Sh!screenVars, Sh!androidVars, Sh!Goes, Sh!Ends,
     Sh!Returns, Sh!nothingShown, Sh!presents, Sh!Received, Sh!Sends, Sh!Screen, Sh!UserDid,
     Sh!elsewhere, Sh!finish
  <2>1. ~Sh!schedule_service_timeout(c)
    BY DEF Sh!schedule_service_timeout, SheetBase, Told
  <2> QED BY <1>4, <2>1 DEF Sh!Start, Sh!Cancel, Sh!did_share, Sh!did_fail, Sh!onReceive, Sh!chooserResult
<1>5. CASE Sh!purge_staged \/ \E h \in Handles : \/ Sh!OpenWindow(h) \/ Sh!Register(h)
                                                  \/ Sh!Unregister(h) \/ Sh!Destroy(h)
  BY <1>5, <1>w
  DEF Sh!purge_staged, Sh!OpenWindow, Sh!Register, Sh!Unregister, Sh!Destroy, Sh!windowsOnly,
     Sh!nothingShown,
    Sh!screenVars
<1> QED BY <1>1, <1>2, <1>3, <1>4, <1>5 DEF Sh!Next

\* Whatever calls, windows and platforms: no sheet appears for a call that was answered,
\* but on macOS, where it is closed right after (desktop/windows.rs 219-229, the job a
\* cancelled call takes back).
THEOREM SheetsAreNotLate == SharesSpec => NoLateSheet
<1>0. Sh!ShareSheetAssumption
  BY SharesAssumption
<1>1. SharesInit => SheetInv
  BY <1>0, SheetStarts DEF SharesInit
<1>2. SheetInv /\ [SharesNext]_shareVars => SheetInv'
  BY <1>0, SheetStep DEF SharesNext, shareVars
<1> DEFINE NotLate == \A c \in Calls : sheet'[c] = "up" /\ sheet[c] # "up" => call[c] # "done" \/ system = "macos"
<1>3. SheetInv /\ [SharesNext]_shareVars => [NotLate]_(Sh!vars)
  <2> SUFFICES ASSUME SheetInv, [SharesNext]_shareVars, ~UNCHANGED Sh!vars PROVE NotLate
    OBVIOUS
  <2>1. Sh!Next
    BY DEF SharesNext, shareVars, sheetVars, Sh!vars, Sh!callVars, Sh!windowVars, Sh!screenVars,
       Sh!androidVars
  <2> QED BY <2>1, LateStep DEF SheetInv
<1>4. [][NotLate]_(Sh!vars) => NoLateSheet
  BY PTL DEF NoLateSheet, Sh!NoLateSheet
<1> HIDE DEF NotLate
<1> QED BY <1>1, <1>2, <1>3, <1>4, PTL DEF SharesSpec
=============================================================================
