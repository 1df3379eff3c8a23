----------------------------- MODULE WalletStore -----------------------------
(***************************************************************************)
(* The encrypted key store (hivecomb/src/wallet.rs): one file, the handles *)
(* that processes hold on it, and what survives when a save fails halfway  *)
(* or a process dies between two of its steps.                             *)
(*                                                                         *)
(* A salt is drawn once and for one passphrase, so a derived key is named  *)
(* by its salt: `drawn[s]' is the passphrase it was derived from, and an   *)
(* entry is the salt whose derived key seals it, 0 for no entry.  Accounts *)
(* and roles, nonces, JSON and base64 are left out: an entry is opened by  *)
(* the key that sealed it and a file that is cut short does not parse.     *)
(*                                                                         *)
(* The file system is the environment: fs::write truncates, then fills, in *)
(* one go or in several, and a descriptor follows its file through a       *)
(* rename.                                                                 *)
(***************************************************************************)
EXTENDS Naturals, Sequences, FiniteSets

CONSTANTS
    Handles,        \* Wallet values, each in a process of its own
    Keys,           \* private keys, each with its public key
    Passphrases,    \* passphrases that are not empty
    MaxSalts        \* bound: wallets created and passphrases changed

ASSUME WalletAssumption == IsFiniteSet(Handles) /\ MaxSalts \in Nat

VARIABLES
    disk,           \* what is at the wallet's path
    temp,           \* what is at the path with the extension .tmp
    drawn,          \* the passphrase each salt was drawn for
    handle,         \* each handle: Wallet, and where it is in an operation
    kept,           \* history: keys whose last operation was an add_key that returned Ok
    gone,           \* history: ... a remove_key that is taken at its word
    phrases,        \* history: the passphrases the wallet may be under
    shared          \* history: whether two handles were ever open together

wallet_vars == <<disk, temp, drawn, handle, kept, gone, phrases, shared>>
history == <<kept, gone, phrases>>

WalletFile == [kind : {"none", "torn", "whole"}, salt : Nat, sealed : [Keys -> Nat]]

Empty(kind) == [kind |-> kind, salt |-> 0, sealed |-> [k \in Keys |-> 0]]

Locked == 0

Closed ==
    [ pc     |-> "closed",
      file   |-> Empty("none"),     \* Wallet.file
      cipher |-> Locked,            \* Wallet.cipher
      phrase |-> {},                \* the argument of create or change_passphrase
      key    |-> {},                \* ... of add_key or remove_key
      op     |-> "",
      fd     |-> "",                \* the file fs::write has open
      behind |-> FALSE ]            \* history: the last save failed

Stored(file) == {k \in Keys : file.sealed[k] # 0}

Update(h, w) == handle' = [handle EXCEPT ![h] = w]

(* What the owner was told.  Once two handles are open together nobody's   *)
(* word holds, and the history is dropped. *)
Remember(k, g, p) ==
    /\ kept' = (IF shared' THEN {} ELSE k)
    /\ gone' = (IF shared' THEN {} ELSE g)
    /\ phrases' = (IF shared' THEN {} ELSE p)

(* A handle comes into being: is another one open? *)
Share(h) ==
    /\ shared' = (shared \/ \E g \in Handles \ {h} : handle[g].pc # "closed")
    /\ Remember(kept, gone, phrases)

-----------------------------------------------------------------------------
(* The operations, up to the save they end in *)

(* create: the path does not exist ... *)
Create(h, p) ==
    /\ handle[h].pc = "closed" /\ disk.kind = "none"
    /\ Update(h, [Closed EXCEPT !.pc = "deriving", !.op = "create", !.phrase = {p}])
    /\ Share(h)
    /\ UNCHANGED <<disk, temp, drawn>>

(* ... and is not looked at again after the key was derived. *)
Derive(h) ==
    /\ handle[h].pc = "deriving" /\ Len(drawn) < MaxSalts
    /\ \E p \in handle[h].phrase : drawn' = Append(drawn, p)
    /\ LET salt == Len(drawn) + 1
       IN  Update(h, [handle[h] EXCEPT !.pc = "saving", !.cipher = salt,
                                       !.file = [Empty("whole") EXCEPT !.salt = salt]])
    /\ UNCHANGED <<disk, temp, shared>>
    /\ Remember(kept, gone, phrases \cup handle[h].phrase)

Open(h) ==
    /\ handle[h].pc = "closed" /\ disk.kind = "whole"
    /\ Update(h, [Closed EXCEPT !.pc = "ready", !.file = disk])
    /\ Share(h)
    /\ UNCHANGED <<disk, temp, drawn>>

(* With another passphrase than the file's, unlock is an error and changes *)
(* nothing. *)
Unlock(h, p) ==
    /\ handle[h].pc = "ready" /\ drawn[handle[h].file.salt] = p
    /\ Update(h, [handle[h] EXCEPT !.cipher = handle[h].file.salt])
    /\ UNCHANGED <<disk, temp, drawn, history, shared>>

Lock(h) ==
    /\ handle[h].pc = "ready"
    /\ Update(h, [handle[h] EXCEPT !.cipher = Locked])
    /\ UNCHANGED <<disk, temp, drawn, history, shared>>

AddKey(h, k) ==
    /\ handle[h].pc = "ready" /\ handle[h].cipher # Locked
    /\ Update(h, [handle[h] EXCEPT !.pc = "saving", !.op = "add", !.key = {k},
                                   !.file.sealed[k] = handle[h].cipher])
    /\ UNCHANGED <<disk, temp, drawn, shared>>
    /\ Remember(kept, gone \ {k}, phrases)

(* A locked wallet removes keys too. *)
RemoveKey(h, k) ==
    /\ handle[h].pc = "ready" /\ k \in Stored(handle[h].file)
    /\ Update(h, [handle[h] EXCEPT !.pc = "saving", !.op = "remove", !.key = {k},
                                   !.file.sealed[k] = 0])
    /\ UNCHANGED <<disk, temp, drawn, shared>>
    /\ Remember(kept \ {k}, gone, phrases)

(* A key that memory lacks: Ok(false), and nothing is saved.  That is an   *)
(* answer about memory: one of a wallet whose last save failed does not    *)
(* count as a word on the file.                                            *)
RemoveAbsent(h, k) ==
    /\ handle[h].pc = "ready" /\ k \notin Stored(handle[h].file)
    /\ UNCHANGED <<disk, temp, drawn, handle, shared>>
    /\ Remember(kept, IF handle[h].behind THEN gone ELSE gone \cup {k}, phrases)

(* decrypt_entry, for every entry. *)
opens_all(w) == \A k \in Stored(w.file) : w.cipher = w.file.sealed[k]

(* Seeded bug: the header is renewed and the entries are not. *)
ChangePassphrase_header_only(h, p) ==
    /\ handle[h].pc = "ready" /\ opens_all(handle[h]) /\ Len(drawn) < MaxSalts
    /\ drawn' = Append(drawn, p)
    /\ Update(h, [handle[h] EXCEPT
            !.pc = "saving", !.op = "rekey", !.phrase = {p},
            !.cipher = Len(drawn) + 1, !.file.salt = Len(drawn) + 1])
    /\ UNCHANGED <<disk, temp, shared>>
    /\ Remember(kept, gone, phrases \cup {p})

(* Seeded bug: entries that do not decrypt are skipped. *)
ChangePassphrase_skipping(h, p) ==
    /\ handle[h].pc = "ready" /\ Len(drawn) < MaxSalts
    /\ drawn' = Append(drawn, p)
    /\ LET salt == Len(drawn) + 1
           w == handle[h]
       IN  Update(h, [w EXCEPT
                !.pc = "saving", !.op = "rekey", !.phrase = {p}, !.cipher = salt,
                !.file = [w.file EXCEPT !.salt = salt,
                    !.sealed = [k \in Keys |->
                        IF k \in Stored(w.file) /\ w.file.sealed[k] = w.cipher
                        THEN salt ELSE 0]]])
    /\ UNCHANGED <<disk, temp, shared>>
    /\ Remember(kept, gone, phrases \cup {p})

ChangePassphrase(h, p) ==
    /\ handle[h].pc = "ready" /\ opens_all(handle[h]) /\ Len(drawn) < MaxSalts
    /\ drawn' = Append(drawn, p)
    /\ LET salt == Len(drawn) + 1
           file == handle[h].file
       IN  Update(h, [handle[h] EXCEPT
                !.pc = "saving", !.op = "rekey", !.phrase = {p}, !.cipher = salt,
                !.file = [file EXCEPT !.salt = salt,
                              !.sealed = [k \in Keys |-> IF k \in Stored(file) THEN salt ELSE 0]]])
    /\ UNCHANGED <<disk, temp, shared>>
    /\ Remember(kept, gone, phrases \cup {p})

-----------------------------------------------------------------------------
(* save *)

(* Seeded bug: the wallet is written in place. *)
Truncate_in_place(h) ==
    /\ handle[h].pc = "saving"
    /\ disk' = Empty("torn")
    /\ Update(h, [handle[h] EXCEPT !.pc = "writing", !.fd = "disk"])
    /\ UNCHANGED <<temp, drawn, history, shared>>

Truncate(h) ==
    /\ handle[h].pc = "saving"
    /\ temp' = Empty("torn")
    /\ Update(h, [handle[h] EXCEPT !.pc = "writing", !.fd = "temp"])
    /\ UNCHANGED <<disk, drawn, history, shared>>

(* fs::write is free to write in pieces: what was whole no longer is. *)
FillPart(h) ==
    /\ handle[h].pc = "writing"
    /\ \/ handle[h].fd = "temp" /\ temp.kind = "whole" /\ temp' = Empty("torn") /\ disk' = disk
       \/ handle[h].fd = "disk" /\ disk.kind = "whole" /\ disk' = Empty("torn") /\ temp' = temp
    /\ UNCHANGED <<drawn, handle, history, shared>>

(* Where two handles write the same file, pieces of both may be left. *)
filled(h) == {handle[h].file} \cup (IF shared THEN {Empty("torn")} ELSE {})

Fill(h) ==
    /\ handle[h].pc = "writing"
    /\ temp' \in IF handle[h].fd = "temp" THEN filled(h) ELSE {temp}
    /\ disk' \in IF handle[h].fd = "disk" THEN filled(h) ELSE {disk}
    /\ Update(h, [handle[h] EXCEPT !.pc = "written", !.fd = ""])
    /\ UNCHANGED <<drawn, history, shared>>

(* Where a descriptor points once temp took the place of disk. *)
renamed(fd) == IF fd = "temp" THEN "disk" ELSE IF fd = "disk" THEN "unlinked" ELSE fd

Idle(w, failed) ==
    [w EXCEPT !.pc = "ready", !.op = "", !.key = {}, !.phrase = {}, !.fd = "", !.behind = failed]

(* The permissions are set, the file is renamed, and the operation is Ok.  *)
Rename(h) ==
    /\ handle[h].pc = "written" /\ temp.kind # "none"
    /\ disk' = temp /\ temp' = Empty("none")
    /\ handle' = [g \in Handles |->
                     IF g = h THEN Idle(handle[h], FALSE)
                     ELSE [handle[g] EXCEPT !.fd = renamed(@)]]
    /\ UNCHANGED <<drawn, shared>>
    /\ Remember(IF handle[h].op = "add" THEN kept \cup handle[h].key ELSE kept,
                IF handle[h].op = "remove" THEN gone \cup handle[h].key ELSE gone,
                IF handle[h].op \in {"create", "rekey"} THEN handle[h].phrase ELSE phrases)

(* A write, the permissions or the rename fails: the operation returns an  *)
(* error, and what it changed in memory stays changed.                     *)
SaveFails(h) ==
    /\ handle[h].pc \in {"saving", "writing", "written"}
    /\ Update(h, IF handle[h].op = "create" THEN Closed
                 ELSE Idle(handle[h], TRUE))
    /\ UNCHANGED <<disk, temp, drawn, history, shared>>

(* The handle is dropped, or its process dies wherever it is. *)
Crash(h) ==
    /\ handle[h].pc # "closed"
    /\ Update(h, Closed)
    /\ UNCHANGED <<disk, temp, drawn, history, shared>>

-----------------------------------------------------------------------------
WalletInit ==
    /\ disk = Empty("none") /\ temp = Empty("none") /\ drawn = <<>>
    /\ handle = [h \in Handles |-> Closed]
    /\ kept = {} /\ gone = {} /\ phrases = {} /\ shared = FALSE

WalletNext ==
    \E h \in Handles :
        \/ \E p \in Passphrases : Create(h, p) \/ Unlock(h, p) \/ ChangePassphrase(h, p)
        \/ Derive(h) \/ Open(h) \/ Lock(h)
        \/ \E k \in Keys : AddKey(h, k) \/ RemoveKey(h, k) \/ RemoveAbsent(h, k)
        \/ Truncate(h) \/ FillPart(h) \/ Fill(h) \/ Rename(h) \/ SaveFails(h) \/ Crash(h)

WalletSpec == WalletInit /\ [][WalletNext]_wallet_vars

-----------------------------------------------------------------------------
(* Properties *)

(* Every field keeps its type, and nothing of a handle outlives it. *)
WalletTypeOK ==
    /\ disk \in WalletFile /\ temp \in WalletFile
    /\ drawn \in Seq(Passphrases) /\ Len(drawn) <= MaxSalts
    /\ handle \in [Handles ->
           [ pc : {"closed", "deriving", "ready", "saving", "writing", "written"},
             file : WalletFile, cipher : Nat, phrase : SUBSET Passphrases, key : SUBSET Keys,
             op : {"", "create", "add", "remove", "rekey"},
             fd : {"", "temp", "disk", "unlinked"}, behind : BOOLEAN ]]
    /\ \A h \in Handles :
          /\ handle[h].pc = "closed" => handle[h] = Closed
          /\ (handle[h].fd # "") = (handle[h].pc = "writing")
    /\ kept \subseteq Keys /\ gone \subseteq Keys /\ phrases \subseteq Passphrases
    /\ shared \in BOOLEAN

SealedAlike(file) ==
    /\ file.salt <= Len(drawn) /\ (file.kind = "whole") = (file.salt > 0)
    /\ \A k \in Stored(file) : file.sealed[k] = file.salt

(* One passphrase opens all of a wallet: no file that can be read back, no *)
(* half-saved one and no handle holds an entry that the key of its own     *)
(* header does not open, and an unlocked handle holds that key -- however  *)
(* passphrase changes, additions, failed saves, crashes and other          *)
(* processes' saves interleave. *)
OnePassphraseOpensAll ==
    /\ SealedAlike(disk) /\ SealedAlike(temp)
    /\ \A h \in Handles :
          /\ SealedAlike(handle[h].file)
          /\ handle[h].cipher \in {Locked, handle[h].file.salt}

(* "An interrupted write cannot leave a truncated key store": as long as   *)
(* one process at a time has it open, whatever step a save or a process    *)
(* dies at, the wallet is there, whole, and under a passphrase its owner   *)
(* knows. *)
NeverTruncated ==
    ~shared => \/ disk.kind = "none" /\ kept = {} /\ gone = {}
               \/ disk.kind = "whole" /\ drawn[disk.salt] \in phrases

(* What add_key and remove_key reported stays so, through failed saves of  *)
(* later operations, crashes and reopenings, while one process at a time   *)
(* has the wallet open: a key added is in the file, and one removed, or    *)
(* found to be missing by a wallet whose last save did not fail, is not.   *)
(* (A remove_key whose save failed has taken the key out of memory only,   *)
(* and the next one says Ok(false) of a key that is still in the file,     *)
(* wallet.rs:396-400.) *)
AcknowledgedIsDurable ==
    ~shared => kept \subseteq Stored(disk) /\ gone \cap Stored(disk) = {}

(* change_passphrase: "Requires the wallet to be unlocked, since every key *)
(* must be decrypted and re-encrypted." *)
LockedKeepsItsPassphrase ==
    [][\A h \in Handles :
           handle[h].pc = "ready" /\ handle[h].cipher = Locked /\ handle'[h].pc # "closed"
               => handle'[h].file.salt = handle[h].file.salt]_wallet_vars
=============================================================================
