-------------------------------- MODULE Shell --------------------------------
(***************************************************************************)
(* The shell's commands (kernel/src/fshell/common.c) and its editor        *)
(* (edit.c) on the RAM file system: paths relative to a working directory, *)
(* output that > and >> send to files, and files that are created,         *)
(* removed and edited.                                                     *)
(*                                                                         *)
(* The shell is one task and the only one that uses the file system.  A    *)
(* command that only prints to the screen or an error changes nothing and  *)
(* is no step.  A redirected command is a step that opens the file and     *)
(* one more for each write; a step of the editor is a key.                 *)
(***************************************************************************)
EXTENDS Vfs

CONSTANTS
  Args,      \* what is typed for a path: [absolute, tokens]
  Says,      \* what echo is given
  HelpLines, \* the writes of help
  Newline, Space,
  ErrorText, \* what ls and cat write when there is nothing to show
  MaxTyped   \* BUFFER_SIZE - 1

ASSUME ShellAssumption ==
  /\ \A arg \in Args : arg.absolute \in BOOLEAN /\ arg.tokens \in Seq(Names \cup {".", ".."})
  /\ Names \cup {Newline, Space, ErrorText} \subseteq Bytes
  /\ Says \subseteq Seq(Bytes) /\ HelpLines \in Seq(Seq(Bytes)) \ {<<>>}
  /\ MaxTyped \in 0 .. MaxSize

VARIABLES
  pwd,       \* the working directory, by its names
  op         \* the command that is being carried out

shellVars == <<node, g_mounts, broken, pwd, op>>

Idle == [kind |-> "idle"]

ShellInit ==
  /\ node = [[n \in Nodes |-> Freed] EXCEPT ![Root] = vfs_create_node(NoName, "folder", NoNode)]
  /\ g_mounts = <<>>
  /\ broken = FALSE
  /\ pwd = <<>>
  /\ op = Idle

-----------------------------------------------------------------------------
(* Paths.                                                                  *)

(* Mutant: .. is always a name less.                                       *)
Resolved_Unguarded(names, token) ==
  CASE token = "." -> names
    [] token = ".." /\ names # <<>> -> Front(names)
    [] OTHER -> Append(names, token)

(* One more name of a path: .. above the root is the root.                 *)
Resolved(names, token) ==
  CASE token = "." -> names
    [] token = ".." -> IF names = <<>> THEN <<>> ELSE Front(names)
    [] OTHER -> Append(names, token)

resolve_path(arg) ==
  FoldLeft(Resolved, <<>>, (IF arg.absolute THEN <<>> ELSE pwd) \o arg.tokens)

open(arg) == Lookup(resolve_path(arg))

-----------------------------------------------------------------------------
(* Commands that do one thing.                                             *)

touch(arg) ==
  /\ op = Idle
  /\ open(arg) = NoNode
  /\ create(resolve_path(arg), "file")
  /\ UNCHANGED <<pwd, op>>

mkdir(arg) ==
  /\ op = Idle
  /\ create(resolve_path(arg), "folder")
  /\ UNCHANGED <<pwd, op>>

rm(arg) ==
  /\ op = Idle
  /\ open(arg) # NoNode /\ node[open(arg)].type = "file"
  /\ remove_p(resolve_path(arg))
  /\ UNCHANGED <<pwd, op>>

rmdir(arg) ==
  /\ op = Idle
  /\ IsFolder(open(arg)) /\ node[open(arg)].children = NoNode
  /\ remove_p(resolve_path(arg))
  /\ UNCHANGED <<pwd, op>>

(* Mutant: whatever is there is gone to.                                   *)
cd_Anything(arg) ==
  /\ op = Idle
  /\ open(arg) # NoNode
  /\ pwd' = resolve_path(arg)
  /\ UNCHANGED <<node, g_mounts, broken, op>>

cd(arg) ==
  /\ op = Idle
  /\ IsFolder(open(arg))
  /\ pwd' = resolve_path(arg)
  /\ UNCHANGED <<node, g_mounts, broken, op>>

-----------------------------------------------------------------------------
(* Output.  What a command prints is the sequence of its writes.           *)

Command ==
  {[name |-> "help"]}
    \cup [name : {"echo"}, says : Says]
    \cup [name : {"ls", "cat"}, of : Args]

(* strlen() bytes of a name: nothing of the one that create() gives "/".   *)
Spelled(name) == IF name = NoName THEN <<>> ELSE <<name>>

ls(f, n) ==
  IF n = NoNode \/ f[n].type # "folder" THEN << <<ErrorText>> >>
  ELSE LET s == Children(f, n)
       IN FlattenSeq([k \in DOMAIN s |-> << Spelled(f[s[k]].name), <<Space>> >>]) \o << <<Newline>> >>

cat(f, n) ==
  IF n = NoNode \/ f[n].type # "file" THEN << <<ErrorText>> >> ELSE <<f[n].data>>

(* With the memory f, in which the file for the output is there already.   *)
Output(f, command) ==
  CASE command.name = "help" -> HelpLines
    [] command.name = "echo" -> <<command.says, <<Newline>> >>
    [] command.name = "ls"  -> ls(f, vfs_traverse_path(f, g_mounts, resolve_path(command.of)))
    [] command.name = "cat" -> cat(f, vfs_traverse_path(f, g_mounts, resolve_path(command.of)))

(* Mutant: >> begins behind the first byte.                                *)
StartOf_Appending(r, mode) == IF mode = "append" /\ r.size > 0 THEN r.size - 1 ELSE 0

StartOf(r, mode) == IF mode = "append" THEN r.size ELSE 0

(* What the screen shows of the bytes of a file: those before a zero.      *)
Shown(data) ==
  LET zeros == {i \in DOMAIN data : data[i] = 0}
  IN IF zeros = {} THEN data ELSE SubSeq(data, 1, Min(zeros) - 1)

(* handle_redirection(): the file is opened, and created if it is not      *)
(* there.  When neither is possible the output goes to the screen.         *)
redirect(command, target, mode) ==
  LET path == resolve_path(target)
      there == Lookup(path)
  IN /\ op = Idle
     /\ IF there = NoNode THEN create(path, "file")
        ELSE UNCHANGED <<node, g_mounts, broken>>
     /\ LET file == vfs_traverse_path(node', g_mounts, path)
            output == Output(node', command)
            start == StartOf(node'[file], mode)
        IN /\ start + Len(FlattenSeq(output)) <= MaxSize
           /\ op' = [kind |-> "print", mode |-> mode, file |-> file, offset |-> start,
                     left |-> output, said |-> <<>>, old |-> node'[file].data]
     /\ UNCHANGED pwd

(* Mutant: every write goes where the first one went.                      *)
Advanced_Stays(offset, bytes) == offset

Advanced(offset, bytes) == offset + Len(bytes)

(* A write to a folder does nothing.                                       *)
print ==
  /\ op.kind = "print" /\ op.left # <<>>
  /\ LET bytes == Head(op.left)
     IN /\ node' = IF node[op.file].type # "file" THEN node
                   ELSE Written(node, op.file, op.offset, bytes)
        /\ op' = [op EXCEPT !.left = Tail(@), !.offset = Advanced(@, bytes),
                            !.said = @ \o bytes]
  /\ UNCHANGED <<g_mounts, broken, pwd>>

(* The command returns, and the prompt waits for the next one.             *)
prompt ==
  /\ op.kind = "print" /\ op.left = <<>>
  /\ op' = Idle
  /\ UNCHANGED <<node, g_mounts, broken, pwd>>
-----------------------------------------------------------------------------
(* text_editor().  What was in the file is shown but not edited: the first *)
(* key that is typed is the first byte.                                    *)

(* The file is not looked for: nothing there is a read through nullptr.    *)
edit(arg) ==
  /\ op = Idle
  /\ op' = IF open(arg) = NoNode THEN [kind |-> "fault"]
           ELSE [kind |-> "edit", file |-> open(arg), buffer |-> <<>>]
  /\ UNCHANGED <<node, g_mounts, broken, pwd>>

(* The four keys of the cursor never get into the buffer.                  *)
key(byte) ==
  /\ op.kind = "edit" /\ Len(op.buffer) < MaxTyped
  /\ op' = [op EXCEPT !.buffer = Append(@, byte)]
  /\ UNCHANGED <<node, g_mounts, broken, pwd>>

backspace ==
  /\ op.kind = "edit" /\ op.buffer # <<>>
  /\ op' = [op EXCEPT !.buffer = Front(@)]
  /\ UNCHANGED <<node, g_mounts, broken, pwd>>

(* Tab: the bytes typed so far go to the start of the file.                *)
save ==
  /\ op.kind = "edit"
  /\ node' = IF node[op.file].type # "file" THEN node
             ELSE Written(node, op.file, 0, op.buffer)
  /\ UNCHANGED <<g_mounts, broken, pwd, op>>

escape ==
  /\ op.kind = "edit"
  /\ op' = Idle
  /\ UNCHANGED <<node, g_mounts, broken, pwd>>

-----------------------------------------------------------------------------
ShellNext ==
  \/ \E arg \in Args :
       \/ touch(arg)
       \/ mkdir(arg)
       \/ rm(arg)
       \/ rmdir(arg)
       \/ cd(arg)
       \/ edit(arg)
       \/ \E command \in Command, mode \in {"truncate", "append"} : redirect(command, arg, mode)
  \/ print
  \/ prompt
  \/ \E byte \in Bytes : key(byte)
  \/ backspace
  \/ save
  \/ escape

ShellSpec == ShellInit /\ [][ShellNext]_shellVars

-----------------------------------------------------------------------------
(* Properties.                                                             *)

(* The working directory is spelled without . and .., however it was       *)
(* reached, and the file of the command in progress is there.              *)
ShellTypeOK ==
  /\ \A n \in Nodes : node[n] \in Node
  /\ pwd \in BoundedSeq(Names, Cardinality(Nodes))
  /\ op.kind \in {"idle", "print", "edit", "fault"}
  /\ op.kind \in {"print", "edit"} => op.file \in Live

(* handle_redirection(), WRITE_MODE_TRUNCATE: from the first byte on the   *)
(* file shows what has been printed and no rest of what was in it, though  *)
(* it keeps its size.                                                      *)
TruncateShows ==
  /\ op.kind = "print" /\ op.mode = "truncate"
  /\ node[op.file].type = "file"
  /\ op.said # <<>> \/ op.left = <<>>
  => Shown(node[op.file].data) = Shown(op.said)

(* WRITE_MODE_APPEND: what was in the file stays before what is printed,   *)
(* also when the file prints itself.                                       *)
AppendKeeps ==
  op.kind = "print" /\ node[op.file].type = "file" /\ op.mode = "append"
    => node[op.file].data = op.old \o op.said

(* text_editor(): a saved file shows what was typed, however long it was.  *)
SavedIsTyped ==
  [][save /\ node[op.file].type = "file" => Shown(node'[op.file].data) = op.buffer]_shellVars

(* The working directory is a folder until that very folder is removed,    *)
(* whatever is created, removed and written beside it and below it.        *)
PwdStays ==
  [][LET n == Lookup(pwd)
         now == vfs_traverse_path(node', g_mounts', pwd')
     IN IsFolder(n) => (now # NoNode /\ node'[now].type = "folder") \/ n \notin Live']_shellVars
=============================================================================
