------------------------------- MODULE Shell -------------------------------
(***************************************************************************)
(* The shell of src/kernel/kernel.c as the client of the file system: one  *)
(* action per call it makes, in the order of shell_run, from the boot that *)
(* makes /disk and mounts the volume on it.  No interrupt handler touches  *)
(* the file system, so nothing else runs in between.  help, ls, stat, pwd  *)
(* and the commands about time and memory change nothing and have no step. *)
(*                                                                         *)
(* rm may free the current directory, or the root of the mounted volume.   *)
(* From then on the next prompt reads freed memory, whose content depends  *)
(* on what the heap reuses it for: the model ends there (Dangling).        *)
(***************************************************************************)
EXTENDS Vfs

CONSTANTS
    Args,       \* the paths a user may type
    NL,         \* the newline that write and append add
    READ_LEN    \* 128, what cat reads at a time

\* A path is typed as one word, in which a name ends at a slash; Names are
\* names that can be typed and do not say where to go.
ASSUME ShellAssumption ==
    /\ \A arg \in Args :
        /\ arg \in Seq(STRING) /\ arg # <<>>
        /\ \A i \in 1 .. Len(arg) - 1 : arg[i] = "/" \/ arg[i + 1] = "/"
    /\ Names \subseteq STRING \ {"", "/", ".", ".."}
    /\ NL \in Bytes
    /\ READ_LEN \in Nat \ {0}

VARIABLES
    pc, cmd, text,   \* where shell_run is, its command and its text
    shown,           \* history: what cat has printed
    wrote            \* history: what vfs_write took since the last truncation

locals == <<pc, cmd, text, shown>>
vars == <<vfs, locals, wrote>>

Init ==
    /\ VfsInit
    /\ pc = "boot"
    /\ cmd = NULL
    /\ text = <<>>
    /\ shown = <<>>
    /\ wrote = [n \in Node |-> <<>>]

-----------------------------------------------------------------------------
\* Something the shell will follow has been freed.
Dangling == cwd \notin Live \/ \E n \in Live : nodes[n].mount \notin Live \union {NULL}

\* Mutant: every path starts at the root.
MakePathFromRoot(arg) == IF arg[1] = "/" THEN arg ELSE <<"/">> \o arg

make_path(arg) ==
    IF arg[1] = "/" THEN arg
    ELSE IF Last(vfs_getcwd) = "/" THEN vfs_getcwd \o arg
    ELSE Append(vfs_getcwd, "/") \o arg

\* vfs_init's mkdir of the mount point; when it fails the boot goes on.
Boot ==
    /\ pc = "boot"
    /\ vfs_mkdir(<<"/", "disk">>) \/ UNCHANGED vfs
    /\ pc' = "mount"
    /\ UNCHANGED <<cmd, text, shown, wrote>>

\* With a disk, or without.
Mount ==
    /\ pc = "mount"
    /\ vfs_mount(<<"/", "disk">>) \/ UNCHANGED vfs
    /\ pc' = "prompt"
    /\ UNCHANGED <<cmd, text, shown, wrote>>

AtPrompt == pc = "prompt" /\ ~ Dangling

Mkdir(arg) ==
    /\ AtPrompt
    /\ vfs_mkdir(make_path(arg))
    /\ UNCHANGED <<locals, wrote>>

Rm(arg) ==
    /\ AtPrompt
    /\ vfs_unlink(make_path(arg))
    /\ wrote' = [n \in Node |-> IF n \in DOMAIN nodes' THEN wrote[n] ELSE <<>>]
    /\ UNCHANGED locals

Cd(arg) ==
    /\ AtPrompt
    /\ vfs_chdir(make_path(arg))
    /\ UNCHANGED <<locals, wrote>>

\* cd on its own.
CdRoot ==
    /\ AtPrompt
    /\ vfs_chdir(<<"/">>)
    /\ UNCHANGED <<locals, wrote>>

Flags(command) ==
    CASE command = "cat" -> {"READ"}
      [] command = "write" -> {"WRITE", "CREATE", "TRUNC"}
      [] command = "append" -> {"WRITE", "CREATE", "APPEND"}

\* cat, write and append open their file ...
Open(command, arg, payload) ==
    /\ AtPrompt
    /\ vfs_open(make_path(arg), Flags(command))
    /\ pc' = "opened"
    /\ cmd' = command
    /\ text' = payload
    /\ UNCHANGED shown
    /\ wrote' = IF fd' = -1 THEN wrote
                ELSE LET n == fd_table'[fd'].node
                     IN  IF command = "write" \/ n \notin Live
                         THEN [wrote EXCEPT ![n] = <<>>]
                         ELSE wrote

Reset == cmd' = NULL /\ text' = <<>> /\ shown' = <<>>

\* ... report a failure ...
OpenFailed ==
    /\ pc = "opened"
    /\ fd = -1
    /\ pc' = "prompt"
    /\ Reset
    /\ UNCHANGED <<vfs, wrote>>

\* ... write the text and, whatever came of that, the newline ...
WriteCall(bytes) ==
    \/ /\ vfs_write(fd, bytes)
       /\ wrote' = [wrote EXCEPT ![fd_table[fd].node] = @ \o bytes]
    \/ /\ ~ CanWrite(fd, Len(bytes)) \/ MayFail(fd, Len(bytes))
       /\ UNCHANGED <<vfs, wrote>>

WriteText ==
    /\ pc = "opened"
    /\ fd # -1
    /\ cmd # "cat"
    /\ WriteCall(text)
    /\ pc' = "newline"
    /\ UNCHANGED <<cmd, text, shown>>

WriteNewline ==
    /\ pc = "newline"
    /\ WriteCall(<<NL>>)
    /\ pc' = "close"
    /\ UNCHANGED <<cmd, text, shown>>

\* ... or read until nothing is left ...
Read ==
    /\ pc = "opened"
    /\ fd # -1
    /\ cmd = "cat"
    /\ LET got == ReadResult(fd, READ_LEN)
       IN  /\ vfs_read(fd, READ_LEN)
           /\ shown' = shown \o got
           /\ pc' = IF got = <<>> THEN "close" ELSE "opened"
    /\ UNCHANGED <<cmd, text, wrote>>

\* ... and close it.
Close ==
    /\ pc = "close"
    /\ vfs_close(fd)
    /\ pc' = "prompt"
    /\ Reset
    /\ UNCHANGED wrote

shell_run ==
    \/ Boot \/ Mount
    \/ OpenFailed \/ WriteText \/ WriteNewline \/ Read \/ Close

Command ==
    \/ CdRoot
    \/ \E arg \in Args :
        \/ Mkdir(arg) \/ Rm(arg) \/ Cd(arg)
        \/ Open("cat", arg, <<>>)
        \/ \E payload \in Payloads :
            Open("write", arg, payload) \/ Open("append", arg, payload)

Ended == pc = "prompt" /\ Dangling /\ UNCHANGED vars

Next == shell_run \/ Command \/ Ended

Spec == Init /\ [][Next]_vars

\* The processor goes on with a command; nobody has to type one.
FairSpec == Spec /\ WF_vars(shell_run)

-----------------------------------------------------------------------------
TypeOK ==
    /\ VfsTypeOK
    /\ pc \in {"boot", "mount", "prompt", "opened", "newline", "close"}
    /\ cmd \in {NULL, "cat", "write", "append"}
    /\ text \in Seq(Bytes)
    /\ shown \in Seq(Bytes)
    /\ wrote \in [Node -> Seq(Bytes)]

\* The RAM filesystem stays a tree, with every directory above the current
\* one alive, whatever the shell creates and removes in it (vfs.c:182-202).
RamfsStaysATree ==
    /\ IsTree([n \in Live \ {fat_root} |-> nodes[n]])
    /\ cwd \in Live \/ \A n \in Live : nodes[n].parent # cwd

\* Every command gives back the file it opened, also when it failed half way
\* (kernel.c:160-200).
PromptHoldsNoFile == pc \in {"boot", "mount", "prompt"} => fd_table = [f \in {} |-> NULL]

\* The depth of the current directory, and whether its path has a name that
\* cannot be written down.
cwdPath == PathOf([n \in Live \ {fat_root} |-> nodes[n]], cwd)

\* A plain name means the entry of the current directory: the path that
\* vfs_getcwd prints and make_path extends leads vfs_resolve back to it.
\* Not on the mounted volume, not more than MAX_DEPTH deep, and not below a
\* directory without a name (kernel.c:99-105, vfs.c:33-61, 235-251).
RelativeMeansCwd ==
    AtPrompt /\ cwd # fat_root /\ Len(cwdPath) <= MAX_DEPTH
             /\ (\A i \in DOMAIN cwdPath : cwdPath[i] # "") =>
        \A name \in Names :
            Resolved(nodes, make_path(<<name>>))
                = {Enter(nodes, ramfs_lookup(nodes, cwd, name))}

Content(n) == SubSeq(nodes[n].data, 1, nodes[n].isize)

\* What write and append have been told was written is in the file, in order
\* and from its first byte, and its size is the length of that: an append
\* goes where the last one ended (vfs.c:133-139, 159-165).
WrittenIsKept ==
    \A n \in Live \ {fat_root} : nodes[n].type = FILE =>
        /\ IsPrefix(wrote[n], Content(n))
        /\ nodes[n].size = Len(wrote[n])

\* cat prints the whole content of the file, once (kernel.c:165-171).
CatShowsTheFile ==
    pc = "close" /\ cmd = "cat" => shown = Content(fd_table[fd].node)

\* Every command comes back to the prompt: the loop of cat moves forward and
\* ends with the file (kernel.c:167).
EveryCommandReturns == pc # "prompt" ~> pc = "prompt"

-----------------------------------------------------------------------------
\* What comments say of the file system, and the code does not do.

\* A path means what its components lead to, one after the other: "/" is the
\* root (ramfs.h:52) and ".." the directory above (vfs.c:113).
PathsAreWalked ==
    AtPrompt => \A arg \in Args : Resolved(nodes, arg) = {Walk(nodes, arg)}

\* vfs.h:47: entering a directory with a mount redirects to what is mounted.
MountsLead ==
    \A n \in Live : nodes[n].mount \in Live \union {NULL}

\* ramfs.h:42: the size of the inode is the bytes of valid content.
ContentIsWhatWasWritten ==
    pc = "prompt" => \A n \in Live \ {fat_root} :
        nodes[n].type = FILE => Content(n) = wrote[n]
=============================================================================
