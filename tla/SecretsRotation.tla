--------------------------- MODULE SecretsRotation ---------------------------
(***************************************************************************)
(* The secrets command line: a ratchet state and a credential bundle, each *)
(* an age file, and the environment file decrypted from the bundle.        *)
(*                                                                         *)
(* A command reads and computes, then writes its files one after another,  *)
(* and each write truncates its file before it fills it: a command can die *)
(* at either point.  Two rotations may run at once.                        *)
(***************************************************************************)
EXTENDS Naturals, Sequences

CONSTANTS
    AgeKeys,      \* age identities; a recipient is the public half of one
    StateFiles,   \* paths given as --state-in and --state-out
    Bundle, Env,  \* the paths of secrets.age and of the decrypted environment file
    Commands,     \* command invocations that may be under way
    MaxEpochs,    \* bound: epochs ever made
    Practices     \* how operators use the tool, see Practice

ASSUME SecretsAssumption ==
    /\ Bundle # Env /\ {Bundle, Env} \cap StateFiles = {}
    /\ MaxEpochs \in Nat
    \* at: rotations under way at once; apart: --state-in is not --state-out;
    \* keep: who runs a rotation is among its recipients; holders: whose keys are in use
    /\ Practices \subseteq [atonce: Nat, apart: BOOLEAN, keep: BOOLEAN, holders: SUBSET AgeKeys]

VARIABLES
    disk,      \* path -> what the file holds
    cmd,       \* command -> the writes it has still to do
    epochs,    \* epochs made: genesis and every advance mix in fresh entropy, so no two agree
    recorded,  \* history: epochs some state file has held whole
    practice

secretsVars == <<disk, cmd, epochs, recorded, practice>>

Paths == StateFiles \cup {Bundle, Env}
Absent == [whole |-> FALSE, epoch |-> 0, for |-> {}]
Whole(epoch, for) == [whole |-> TRUE, epoch |-> epoch, for |-> for]
Put(path, content) == [open |-> FALSE, path |-> path, content |-> content]
ByHand == 0                      \* credentials that were typed in, of no epoch

SecretsInit ==
    /\ disk = [p \in Paths |-> Absent]
    /\ cmd = [c \in Commands |-> <<>>]
    /\ epochs = 0 /\ recorded = {}
    /\ practice \in Practices

\* decrypt_bytes: fails on an absent or truncated file and for other identities.
Opens(id, p) == disk[p].whole /\ id \in disk[p].for

\* parse_recipients refuses an empty list.
Recipients == (SUBSET practice.holders) \ {{}}

Ready(c) == cmd[c] = <<>>
Rotating == {c \in Commands : \E i \in DOMAIN cmd[c] : cmd[c][i].path \in StateFiles}
Run(c, writes) == cmd' = [cmd EXCEPT ![c] = writes]

\* genesis, advance, derive_credential: an epoch stands for all that is derived from it.
NextEpoch == epochs + 1

\* cmd_init, run until a state file is there.
InitState(c, to, for) ==
    /\ Ready(c) /\ recorded = {} /\ Rotating = {} /\ epochs < MaxEpochs
    /\ epochs' = NextEpoch
    /\ Run(c, <<Put(to, Whole(NextEpoch, for))>>)
    /\ UNCHANGED <<disk, recorded, practice>>

\* cmd_encrypt
Encrypt(c, for) ==
    /\ Ready(c)
    /\ Run(c, <<Put(Bundle, Whole(ByHand, for))>>)
    /\ UNCHANGED <<disk, epochs, recorded, practice>>

\* cmd_decrypt: the environment file is plain text, of the bundle's epoch.
Decrypt(c, id) ==
    /\ Ready(c) /\ Opens(id, Bundle)
    /\ Run(c, <<Put(Env, Whole(disk[Bundle].epoch, AgeKeys))>>)
    /\ UNCHANGED <<disk, epochs, recorded, practice>>

\* Mutant: the bundle goes first.
RotationBundleFirst(to, content) == <<Put(Bundle, content), Put(to, content)>>

\* What cmd_rotate writes once it has advanced: the state, then the bundle.
Rotation(to, content) == <<Put(to, content), Put(Bundle, content)>>

\* Mutant: --state-out is not looked at.
RotateInPlace(c, id, from, to, for) ==
    /\ Ready(c) /\ Opens(id, from) /\ epochs < MaxEpochs
    /\ practice.atonce = 1 => Rotating = {}
    /\ practice.apart => from # to
    /\ practice.keep => id \in for
    /\ epochs' = NextEpoch
    /\ Run(c, Rotation(from, Whole(NextEpoch, for)))
    /\ UNCHANGED <<disk, recorded, practice>>

\* cmd_rotate: always on to a fresh epoch; the current one is read, never derived from.
Rotate(c, id, from, to, for) ==
    /\ Ready(c) /\ Opens(id, from) /\ epochs < MaxEpochs
    /\ practice.atonce = 1 => Rotating = {}
    /\ practice.apart => from # to
    /\ practice.keep => id \in for
    /\ epochs' = NextEpoch
    /\ Run(c, Rotation(to, Whole(NextEpoch, for)))
    /\ UNCHANGED <<disk, recorded, practice>>

\* write_new_file, its open: the old contents are gone.
Truncate(c) ==
    /\ ~Ready(c) /\ ~Head(cmd[c]).open
    /\ disk' = [disk EXCEPT ![Head(cmd[c]).path] = Absent]
    /\ cmd' = [cmd EXCEPT ![c][1].open = TRUE]
    /\ UNCHANGED <<epochs, recorded, practice>>

\* ... and its write_all.
Fill(c) ==
    /\ ~Ready(c) /\ Head(cmd[c]).open
    /\ LET w == Head(cmd[c]) IN
       /\ disk' = [disk EXCEPT ![w.path] = w.content]
       /\ recorded' = IF w.path \in StateFiles THEN recorded \cup {w.content.epoch} ELSE recorded
    /\ Run(c, Tail(cmd[c]))
    /\ UNCHANGED <<epochs, practice>>

Die(c) ==
    /\ ~Ready(c) /\ Run(c, <<>>)
    /\ UNCHANGED <<disk, epochs, recorded, practice>>

SecretsNext ==
    \E c \in Commands :
      \/ \E for \in Recipients :
           \/ Encrypt(c, for)
           \/ \E to \in StateFiles : InitState(c, to, for)
           \/ \E id \in AgeKeys, from \in StateFiles, to \in StateFiles : Rotate(c, id, from, to, for)
      \/ \E id \in AgeKeys : Decrypt(c, id)
      \/ Truncate(c) \/ Fill(c) \/ Die(c)

SecretsSpec == SecretsInit /\ [][SecretsNext]_secretsVars

\* A bundle that can be read, and an environment made from one, is of an epoch
\* a state file has held: never credentials whose epoch was not recorded,
\* wherever a rotation dies and however two of them mix.
BundleRecorded ==
    \A p \in {Bundle, Env} : disk[p].whole => disk[p].epoch \in recorded \cup {ByHand}

\* Rotations one at a time, to another file, for the one who runs them too,
\* can go on after a death at any point: some state file can be read.
Recoverable ==
    practice.atonce = 1 /\ practice.apart /\ practice.keep /\ recorded # {} =>
      \E id \in AgeKeys, p \in StateFiles : Opens(id, p)

\* What is in use was recorded, and what is recorded can be gone on from.
RotationSafe == BundleRecorded /\ Recoverable
=============================================================================
