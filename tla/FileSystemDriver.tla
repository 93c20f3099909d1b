-------------------------- MODULE FileSystemDriver --------------------------
(***************************************************************************)
(* The file system as the kernel uses it through KAA::filesystem::driver   *)
(* (an external library; the operations below are what its callers in      *)
(* src/Kernel rely on).  Every operation is given by the condition under   *)
(* which it succeeds and by what it then does to the disk; a caller whose  *)
(* operation does not succeed gets a KAA::system_failure.                  *)
(*                                                                         *)
(* Share modes are left to TwoInstances: within one process the files of a *)
(* call are used by one thread.  Permissions are left out: the read-only   *)
(* attribute of a key file is taken off before the only operation it would *)
(* forbid.                                                                 *)
(***************************************************************************)
EXTENDS Gamma, Functions

CONSTANTS
  Directory,      \* directories that can exist
  DocumentName,   \* names the user gives to documents
  TempName,       \* names get_temp_filename can return
  KeyName,        \* names <md5>.bin
  Md5(_)          \* the name <md5>.bin of a file with this content

Name == DocumentName \cup TempName \cup KeyName

Path == [directory : Directory, name : Name]

ASSUME NameAssumption ==
  /\ DocumentName \cap TempName = {}
  /\ (DocumentName \cup TempName) \cap KeyName = {}
  /\ \A c \in Content : Md5(c) \in KeyName

VARIABLES
  disk,         \* the files: path -> content
  directories,  \* the directories that exist
  uncommitted   \* files created and not committed since: a power loss drops them

driverVars == <<disk, directories, uncommitted>>

Exists(p) == p \in DOMAIN disk

At(d, n) == [directory |-> d, name |-> n]

\* f with p mapped to v, and f without p.
With(f, p, v) == [q \in DOMAIN f \cup {p} |-> IF q = p THEN v ELSE f[q]]
Without(f, p) == Restrict(f, DOMAIN f \ {p})

\* The first n portions of a content.
Prefix(c, n) == [i \in 1..n |-> c[i]]

FilesIn(d) == {p \in DOMAIN disk : p.directory = d}

\* get_temp_filename: the names that are free in d.
FreeTempPaths(d) == {p \in {At(d, n) : n \in TempName} : ~ Exists(p)}

\* create_file in mode "not exists", holding `content' when its writes are done.
CreateFile(p, content) ==
  /\ p.directory \in directories
  /\ ~ Exists(p)
  /\ disk' = With(disk, p, content)
  /\ uncommitted' = uncommitted \cup {p}

WriteFile(p, content) ==
  /\ Exists(p)
  /\ disk' = [disk EXCEPT ![p] = content]
  /\ UNCHANGED uncommitted

Commit(p) ==
  /\ uncommitted' = uncommitted \ {p}
  /\ UNCHANGED disk

RemoveFile(p) ==
  /\ Exists(p)
  /\ disk' = Without(disk, p)
  /\ uncommitted' = uncommitted \ {p}

\* rename_file does not replace an existing file (EEXIST).
CanRename(from, to) == /\ Exists(from)
                       /\ to.directory \in directories
                       /\ ~ Exists(to)

RenameFile(from, to) ==
  /\ CanRename(from, to)
  /\ disk' = With(Without(disk, from), to, disk[from])
  /\ uncommitted' = IF from \in uncommitted
                    THEN (uncommitted \ {from}) \cup {to}
                    ELSE uncommitted

\* create_directory: EEXIST is tolerated by every caller.
CreateDirectory(d) == directories' = directories \cup {d}

\* remove_directory: ENOENT and ENOTEMPTY are tolerated by the only caller.
RemoveDirectory(d) ==
  directories' = IF FilesIn(d) = {} THEN directories \ {d} ELSE directories

\* The power fails: any of the files that were not committed are gone.
DropUncommitted ==
  /\ \E lost \in SUBSET uncommitted : disk' = Restrict(disk, DOMAIN disk \ lost)
  /\ uncommitted' = {}
  /\ UNCHANGED directories
=============================================================================
