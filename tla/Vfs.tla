---------------------------------- MODULE Vfs ----------------------------------
(***************************************************************************)
(* The tree of file names (fs/vfs), the memory file systems under it       *)
(* (fs/ramfs, fs/rootfs) and the kernel side of the Directory and File     *)
(* protocols (publish_directory_call and publish_file_call of              *)
(* ipc/invocation.cc).                                                     *)
(*                                                                         *)
(* The tree is the record vfs and each function of the code an operator    *)
(* from it to it.  Dentries, inodes and files are numbers that are never   *)
(* given out twice, so that a pointer to a freed one stays recognisable: a *)
(* call that follows one, or a null pointer, leaves vfs.crashed TRUE and   *)
(* is the last.  A path is its components, [parts, slash], with slash when *)
(* it ends in '/'.  Sizes are counted in units of which a page has         *)
(* PageUnits; the bytes themselves are left out.                           *)
(*                                                                         *)
(* Calls are taken one at a time.  The code runs them on four workers and  *)
(* has no lock on the tree: two that overlap race on the child lists.      *)
(***************************************************************************)
EXTENDS Integers, Sequences, FiniteSets, SequencesExt

CONSTANTS
  VfsImage,        \* the entries of the root image, in order
  VfsCalls,        \* the calls that clients make
  MaxSymlinkDeep,  \* 15
  MaxPathDeep,     \* 256
  PageUnits,       \* memory::page_size
  MaxPayload,      \* max_kernel_payload
  MaxRam,          \* max_ram_size of the file system
  MaxDentries,     \* bound: dentries allocated
  MaxOpens,        \* bound: files opened
  MaxVfsCalls      \* bound: calls made

VARIABLES vfs, vfsCalls
vfsVars == <<vfs, vfsCalls>>

NoDentry == 0
NoFile == [handles |-> 0, dentry |-> NoDentry, mode |-> {}, offset |-> 0]
RootDentry == 1   \* global_root

Relative(parts) == [absolute |-> FALSE, parts |-> parts, slash |-> FALSE]

\* a dentry and an inode, once allocated, are live until they are freed
LiveDentry(S, d) == d \in DOMAIN S.dentries /\ S.dentries[d].live
Inode(S, d) == S.inodes[S.dentries[d].node]
LiveInode(S, d) == LiveDentry(S, d) /\ Inode(S, d).live
OnInode(S, d, node) == [S EXCEPT !.inodes[S.dentries[d].node] = node]
Crash(S) == [S EXCEPT !.crashed = TRUE]
-----------------------------------------------------------------------------
(* Dentries and inodes *)

find_child(S, d, name) ==
  LET kids == S.dentries[d].kids
      named == {i \in DOMAIN kids : S.dentries[kids[i]].name = name}
  IN IF named = {} THEN NoDentry ELSE kids[CHOOSE i \in named : \A j \in named : i <= j]

remove_child(S, parent, d) ==
  IF ~LiveDentry(S, parent) \/ ~Contains(S.dentries[parent].kids, d) THEN Crash(S)
  ELSE [S EXCEPT !.dentries[parent].kids = SelectSeq(@, LAMBDA k : k # d)]

add_child(S, parent, d) == [S EXCEPT !.dentries[parent].kids = Append(@, d)]

New(S) == Len(S.dentries) + 1
NewInode(S) == Len(S.inodes) + 1

create_dentry(S, parent, name, node) ==
  IF ~LiveInode(S, parent) THEN Crash(S)
  ELSE add_child([S EXCEPT !.dentries = Append(@, [live |-> TRUE, name |-> name, parent |-> parent,
                                                   node |-> node, kids |-> <<>>])],
                 parent, New(S))

\* inode::create, mkdir, create_symbolink and create_pseudo
new_inode(kind) == [live |-> TRUE, kind |-> kind, links |-> 1, refs |-> 0, size |-> 0,
                    ram |-> 0, target |-> Relative(<<>>)]

alloc_inode(S, kind) == [S EXCEPT !.inodes = Append(@, new_inode(kind))]

create_entry(S, parent, name, kind) ==
  alloc_inode(create_dentry(S, parent, name, NewInode(S)), kind)

dealloc(S, d) ==
  [S EXCEPT !.inodes[S.dentries[d].node].live = FALSE, !.dentries[d].live = FALSE]

acquire_open_reference(S, d) == OnInode(S, d, [Inode(S, d) EXCEPT !.refs = @ + 1])

release_open_reference(S, d) ==
  OnInode(S, d, [Inode(S, d) EXCEPT !.refs = IF @ # 0 THEN @ - 1 ELSE 0])

\* inode::rmdir and inode::unlink
DropLink(S, d) == OnInode(S, d, [Inode(S, d) EXCEPT !.links = IF @ # 0 THEN @ - 1 ELSE 0])

Detach(S, d) ==
  LET parent == S.dentries[d].parent
      out == IF parent = NoDentry THEN S ELSE remove_child(S, parent, d)
  IN [out EXCEPT !.dentries[d].parent = NoDentry]
-----------------------------------------------------------------------------
(* Paths *)

Missing(at) == [dentry |-> NoDentry, at |-> at, wild |-> FALSE]
Wild(at) == [dentry |-> NoDentry, at |-> at, wild |-> TRUE]
Found(d, at) == [dentry |-> d, at |-> at, wild |-> FALSE]

\* the entry the whole path names, unless its type is not the one asked for
WalkEnd(S, flags, d, at) ==
  IF ~LiveInode(S, d) THEN Wild(at)
  ELSE IF Inode(S, d).kind = "file" /\ "directory" \in flags THEN Missing(at)
  ELSE IF Inode(S, d).kind = "directory" /\ "file" \in flags THEN Missing(at)
  ELSE Found(d, at)

ParentOf(S, dir, flags, d) ==
  LET parent == S.dentries[d].parent
  IN IF d # dir.root \/ ("cross_root" \in flags /\ parent # NoDentry) THEN parent ELSE d

\* at: last_available_entry, what was left of the path there, and the symbolic
\* links followed so far
RECURSIVE WalkFrom(_, _, _, _, _, _)
RECURSIVE WalkPath(_, _, _, _, _)
WalkFrom(S, dir, flags, d, rest, at) ==
  IF ~LiveDentry(S, d) THEN Wild(at)
  ELSE IF rest.parts = <<>> THEN WalkEnd(S, flags, d, at)
  ELSE LET name == Head(rest.parts)
           more == [rest EXCEPT !.parts = Tail(@)]
           here == [at EXCEPT !.last = d, !.rest = rest]
           next == find_child(S, d, name)
           link == [here EXCEPT !.links = @ + 1]
           sub == WalkPath(S, dir, flags, Inode(S, next).target, link)
       IN IF name = "." THEN WalkFrom(S, dir, flags, d, more, here)
          ELSE IF name = ".." THEN WalkFrom(S, dir, flags, ParentOf(S, dir, flags, d), more, here)
          ELSE IF next = NoDentry THEN Missing(here)
          ELSE IF ~LiveInode(S, next) THEN Wild(here)
          ELSE IF Inode(S, next).links = 0 THEN Missing(here)
          ELSE IF \/ Inode(S, next).kind # "symbolink"
                  \/ more.parts = <<>> /\ "not_resolve_symbolic_link" \in flags
               THEN WalkFrom(S, dir, flags, next, more, here)
          ELSE IF "not_resolve_symbolic_link" \in flags \/ here.links > MaxSymlinkDeep THEN Missing(link)
          ELSE IF Inode(S, next).ram = 0 THEN Wild(link)     \* symbolink() is null
          ELSE IF sub.wild \/ sub.dentry = NoDentry THEN sub
          ELSE IF Inode(S, sub.dentry).links = 0 THEN Missing(sub.at)
          ELSE WalkFrom(S, dir, flags, sub.dentry, more, sub.at)

WalkPath(S, dir, flags, path, at) ==
  IF path.parts = <<>> /\ ~path.absolute THEN Found(dir.current, at)
  ELSE LET start == IF path.absolute THEN dir.root ELSE dir.current
           first == [at EXCEPT !.last = start, !.rest = path]
       IN WalkFrom(S, dir, flags, start, path, IF at.links = 0 THEN first ELSE at)

path_walk(S, dir, path, flags) ==
  WalkPath(S, dir, flags, path, [last |-> NoDentry, rest |-> path, links |-> 0])

\* the name a missing entry would get; none when more than one component is left
rest_file_name(w) == Len(w.at.rest.parts) = 1 /\ ~w.at.rest.slash
rest_dir_name(w) == Len(w.at.rest.parts) = 1
RestName(w) == Head(w.at.rest.parts)
-----------------------------------------------------------------------------
(* What the calls do to the tree: [state, ok], ok when the call succeeds *)

Done(S) == [state |-> S, ok |-> TRUE]
Refused(S) == [state |-> S, ok |-> FALSE]
WalkCrash(S) == [state |-> Crash(S), ok |-> FALSE]

\* an entry for a path that names none
CreateAt(S, w, kind, named) ==
  IF w.wild THEN WalkCrash(S)
  ELSE IF w.dentry # NoDentry THEN Refused(S)
  ELSE IF ~named THEN Refused(S)
  ELSE Done(create_entry(S, w.at.last, RestName(w), kind))

create(S, dir, path) ==
  LET w == path_walk(S, dir, path, {}) IN CreateAt(S, w, "file", rest_file_name(w))

mkdir(S, dir, path) ==
  LET w == path_walk(S, dir, path, {"directory"})
  IN CreateAt(S, w, "directory", rest_dir_name(w))

unlink_open(S0, d) ==
  LET S1 == DropLink(S0, d)
      S2 == IF Inode(S1, d).links = 0 THEN Detach(S1, d) ELSE S1
  IN IF Inode(S2, d).links = 0 THEN dealloc(S2, d) ELSE S2

unlink_entry(S0, d) ==
  LET S1 == DropLink(S0, d)
      S2 == IF Inode(S1, d).links = 0 THEN Detach(S1, d) ELSE S1
  IN IF Inode(S2, d).links = 0 /\ Inode(S2, d).refs = 0 THEN dealloc(S2, d) ELSE S2

unlink(S, dir, path) ==
  LET w == path_walk(S, dir, path, {"not_resolve_symbolic_link"})
  IN IF w.wild THEN WalkCrash(S)
     ELSE IF w.dentry = NoDentry THEN Refused(S)
     ELSE IF ~LiveInode(S, w.dentry) THEN WalkCrash(S)
     ELSE Done(unlink_entry(S, w.dentry))

rmdir_entry(S0, d) ==
  LET S1 == DropLink(Detach(S0, d), d)
  IN IF Inode(S0, d).links = 0 THEN S0
     ELSE IF Inode(S1, d).refs = 0 THEN dealloc(S1, d) ELSE S1

rmdir(S, dir, path) ==
  LET w == path_walk(S, dir, path, {"directory"})
  IN IF w.wild THEN WalkCrash(S)
     ELSE IF w.dentry = NoDentry THEN Refused(S)
     ELSE IF ~LiveInode(S, w.dentry) THEN WalkCrash(S)
     ELSE Done(rmdir_entry(S, w.dentry))

MoveTo(S0, d, parent, name) ==
  LET S1 == remove_child([S0 EXCEPT !.dentries[d].name = name], S0.dentries[d].parent, d)
  IN add_child([S1 EXCEPT !.dentries[d].parent = parent], parent, d)

rename(S, dir, path, new_path) ==
  LET w == path_walk(S, dir, path, {})
      n == path_walk(S, dir, new_path, {})
  IN IF w.wild THEN WalkCrash(S)
     ELSE IF w.dentry = NoDentry THEN Refused(S)
     ELSE IF n.wild THEN WalkCrash(S)
     ELSE IF n.dentry # NoDentry THEN Refused(S)
     ELSE IF ~LiveInode(S, w.dentry) THEN WalkCrash(S)
     ELSE IF ~(IF Inode(S, w.dentry).kind = "directory" THEN rest_dir_name(n) ELSE rest_file_name(n)) THEN
          Refused(S)
     ELSE Done(MoveTo(S, w.dentry, n.at.last, RestName(n)))

link(S, dir, path, target) ==
  LET t == path_walk(S, dir, target, {})
      w == path_walk(S, dir, path, {"file"})
  IN IF t.wild \/ (t.dentry # NoDentry /\ w.wild) THEN WalkCrash(S)
     ELSE IF t.dentry = NoDentry \/ w.dentry # NoDentry \/ ~rest_file_name(w) THEN Refused(S)
     ELSE IF ~LiveInode(S, t.dentry) THEN WalkCrash(S)
     ELSE LET S1 == create_dentry(S, w.at.last, RestName(w), S.dentries[t.dentry].node)
          IN Done(OnInode(S1, t.dentry, [Inode(S1, t.dentry) EXCEPT !.links = @ + 1]))
-----------------------------------------------------------------------------
(* Files of a memory file system *)

Pages(n) == ((n + PageUnits - 1) \div PageUnits) * PageUnits

\* ramfs: the buffer of a file that grows is replaced, and what was beyond the
\* offset is forgotten
iwrite(S, d, offset, size) ==
  LET node == Inode(S, d)
      ram == Pages(offset + size)
      fits == offset + size < node.ram
      grown == [node EXCEPT !.size = offset + size, !.ram = ram]
  IN CASE fits -> Done(OnInode(S, d, [node EXCEPT !.size = @ + size]))
       [] ~fits /\ S.ram_used + ram < MaxRam ->
            Done([OnInode(S, d, grown) EXCEPT !.ram_used = @ + ram - node.ram])
       [] OTHER -> Refused(S)

\* how much is read
iread(S, d, offset, max_size) ==
  LET node == Inode(S, d)
      least == {max_size, node.size - offset, node.ram - offset}
  IN IF offset >= node.size \/ offset >= node.ram THEN 0
     ELSE CHOOSE n \in least : \A m \in least : n <= m

\* the target is written with a file of its own, which is closed before the reply
symbolink(S, dir, path, target) ==
  LET w == path_walk(S, dir, path, {})
      made == CreateAt(S, w, "symbolink", rest_file_name(w))
      S1 == OnInode(made.state, New(S), [Inode(made.state, New(S)) EXCEPT !.target = target])
  IN IF ~made.ok \/ made.state.crashed THEN made ELSE Done(iwrite(S1, New(S), 0, 1).state)

\* file::~file
close_file(S0, f) ==
  LET d == S0.files[f].dentry
      S1 == release_open_reference(S0, d)
      S2 == [S1 EXCEPT !.files[f] = NoFile]
  IN IF ~LiveInode(S0, d) THEN Crash(S0)
     ELSE IF "unlink_on_close" \in S0.files[f].mode \/ Inode(S2, d).links = 0
     THEN unlink_entry(S2, d) ELSE S2

\* alloc_file and file::open; f is the number the next file gets
NextFile(S) == Len(S.files) + 1
open_file(S, d, mode) ==
  IF ~LiveInode(S, d) THEN Crash(S)
  ELSE [acquire_open_reference(S, d) EXCEPT
          !.files = Append(@, [handles |-> 1, dentry |-> d, mode |-> mode, offset |-> 0])]

\* vfs::open: the entry to open, made when the flags ask for it
open_entry(S, dir, path, flags) ==
  LET w == path_walk(S, dir, path, flags)
      made == CreateAt(S, w, IF "directory" \in flags THEN "directory" ELSE "file", rest_file_name(w))
  IN IF w.wild THEN WalkCrash(S) @@ [dentry |-> NoDentry]
     ELSE IF w.dentry # NoDentry THEN Done(S) @@ [dentry |-> w.dentry]
     ELSE IF "auto_create_file" \in flags THEN made @@ [dentry |-> New(S)]
     ELSE Refused(S) @@ [dentry |-> NoDentry]

native_truncate(S, f, length) ==
  LET file == S.files[f]
      S1 == OnInode(S, file.dentry, [Inode(S, file.dentry) EXCEPT !.size = length])
  IN IF "write" \notin file.mode THEN Refused(S)
     ELSE Done([S1 EXCEPT !.files[f].offset = IF @ > length THEN length ELSE @])

native_allocate(S, f, end) ==
  LET file == S.files[f]
      node == Inode(S, file.dentry)
  IN IF "write" \notin file.mode THEN Refused(S)
     ELSE Done(OnInode(S, file.dentry, [node EXCEPT !.size = IF @ < end THEN end ELSE @]))

native_set_flags(S, f, flags) ==
  Done([S EXCEPT !.files[f].mode = (@ \ {"append", "no_block"}) \cup flags])
-----------------------------------------------------------------------------
(* The methods of the Directory protocol; dir is a native_directory *)

\* the file, or the directory, of an open goes to the caller, and is dropped again
\* when the reply finds no caller
DeliverOpen(S, dir, f, flags, delivered) ==
  LET d == S.files[f].dentry
      dropped == close_file(S, f)
      opened == [root |-> IF "chroot" \in flags THEN d ELSE dir.root, current |-> d]
  IN IF ~delivered THEN dropped
     ELSE IF Inode(S, d).kind = "directory" THEN [dropped EXCEPT !.dirs = Append(@, opened)]
     ELSE S

directory_open(S, dir, c, delivered) ==
  LET r == open_entry(S, dir, c.path, c.flags)
      f == NextFile(S)
      S1 == open_file(r.state, r.dentry, c.mode)
      t == native_truncate(S1, f, 0)
  IN IF ~r.ok THEN r.state
     ELSE IF S1.crashed THEN S1
     ELSE IF "trunc" \notin c.flags THEN DeliverOpen(S1, dir, f, c.flags, delivered)
     ELSE IF t.ok THEN DeliverOpen(t.state, dir, f, c.flags, delivered)
     ELSE close_file(S1, f)

\* the name of the current directory, looked for upwards as far as the root
RECURSIVE pathname(_, _, _, _)
pathname(S, root, d, deep) ==
  IF d \in {root, NoDentry} \/ deep = 0 THEN S
  ELSE IF ~LiveDentry(S, d) THEN Crash(S)
  ELSE pathname(S, root, S.dentries[d].parent, deep - 1)

directory_path(S, dir) == pathname(S, dir.root, dir.current, MaxPathDeep)

\* every child is read, the ones whose inode is shared and gone included
directory_list(S, dir) ==
  IF /\ LiveDentry(S, dir.current)
     /\ \A i \in DOMAIN S.dentries[dir.current].kids : LiveInode(S, S.dentries[dir.current].kids[i])
  THEN S ELSE Crash(S)

fill_stat(S, d) == IF LiveInode(S, d) THEN S ELSE Crash(S)
directory_stat(S, dir) == fill_stat(S, dir.current)

\* access reads the inode that the path names, readlink its first bytes
directory_access(S, dir, path) ==
  LET w == path_walk(S, dir, path, {})
  IN IF w.wild \/ (w.dentry # NoDentry /\ ~LiveInode(S, w.dentry)) THEN Crash(S) ELSE S

directory_readlink(S, dir, path) ==
  LET w == path_walk(S, dir, path, {"not_resolve_symbolic_link"})
  IN IF w.wild \/ (w.dentry # NoDentry /\ ~LiveInode(S, w.dentry)) THEN Crash(S) ELSE S

set_root(S, dir) == [S EXCEPT !.boot = [root |-> dir.root, current |-> dir.current]]
set_current(S, dir) == [S EXCEPT !.boot.current = dir.current]

publish_directory_call(S, dir, c, delivered) ==
  CASE c.op = "open" -> directory_open(S, dir, c, delivered)
    [] c.op = "create" -> create(S, dir, c.path).state
    [] c.op = "mkdir" -> mkdir(S, dir, c.path).state
    [] c.op = "unlink" -> unlink(S, dir, c.path).state
    [] c.op = "rmdir" -> rmdir(S, dir, c.path).state
    [] c.op = "rename" -> rename(S, dir, c.path, c.second).state
    [] c.op = "link" -> link(S, dir, c.second, c.path).state
    [] c.op = "symlink" -> symbolink(S, dir, c.second, c.path).state
    [] c.op = "path" -> directory_path(S, dir)
    [] c.op = "list" -> directory_list(S, dir)
    [] c.op = "stat" -> directory_stat(S, dir)
    [] c.op = "access" -> directory_access(S, dir, c.path)
    [] c.op = "readlink" -> directory_readlink(S, dir, c.path)
    [] c.op = "set_root" -> set_root(S, dir)
    [] c.op = "set_current" -> set_current(S, dir)
-----------------------------------------------------------------------------
(* The methods of the File protocol *)

\* The mode of a file and the flags of a call are one word (mode | flags), in which
\* mode::read is rw_flags::no_block and mode::write is rw_flags::override: a pipe,
\* which is open for both, never makes its caller wait.  A read takes what there is,
\* a write to a full buffer goes over its oldest bytes.
pipe_read(S, d, size) ==
  OnInode(S, d, [Inode(S, d) EXCEPT !.size = IF @ > size THEN @ - size ELSE 0])
pipe_write(S, d, size) ==
  OnInode(S, d, [Inode(S, d) EXCEPT !.size = IF @ + size > PageUnits THEN PageUnits ELSE @ + size])

IsPipe(S, f) == Inode(S, S.files[f].dentry).kind = "pipe"

file_read(S, f, size) ==
  LET file == S.files[f]
  IN IF "read" \notin file.mode THEN S
     ELSE IF IsPipe(S, f) THEN pipe_read(S, file.dentry, size)
     ELSE [S EXCEPT !.files[f].offset = @ + iread(S, file.dentry, @, size)]

\* in append mode a write starts at the end
file_write(S, f, size) ==
  LET file == S.files[f]
      at == IF "append" \in file.mode THEN Inode(S, file.dentry).size ELSE file.offset
      w == iwrite(S, file.dentry, at, size)
  IN IF "write" \notin file.mode THEN S
     ELSE IF IsPipe(S, f) THEN pipe_write(S, file.dentry, size)
     ELSE [w.state EXCEPT !.files[f].offset = IF w.ok THEN at + size ELSE at]

\* neither moves the offset of the file
file_pread(S, f, offset, size) == S
file_pwrite(S, f, offset, size) ==
  IF offset < 0 \/ "write" \notin S.files[f].mode THEN S
  ELSE iwrite(S, S.files[f].dentry, offset, size).state

\* the segments of a vector call have the size of the call together
valid_iov_layout(lengths, size) ==
  /\ FoldLeft(LAMBDA sum, n : sum + n, 0, lengths) = size
  /\ size <= MaxPayload

file_readv(S, f, c) == IF valid_iov_layout(c.lengths, c.size) THEN file_read(S, f, c.size) ELSE S
file_writev(S, f, c) == IF valid_iov_layout(c.lengths, c.size) THEN file_write(S, f, c.size) ELSE S

\* seek adds to the offset, move sets it
file_seek(S, f, whence, offset) ==
  CASE whence = 0 -> [S EXCEPT !.files[f].offset = @ + offset]
    [] whence = 1 -> [S EXCEPT !.files[f].offset = offset]
    [] whence = 2 -> [S EXCEPT !.files[f].offset = Inode(S, S.files[f].dentry).size + offset]
    [] OTHER -> S

\* a pipe is a Stream, anything else that is open a File
publish_file_call(S, f, c) ==
  IF IsPipe(S, f) /\ c.op \notin {"read", "write", "readv", "writev"} THEN S
  ELSE CASE c.op = "read" -> IF c.size > MaxPayload THEN S ELSE file_read(S, f, c.size)
         [] c.op = "readv" -> file_readv(S, f, c)
         [] c.op = "pread" -> file_pread(S, f, c.offset, c.size)
         [] c.op = "write" -> file_write(S, f, c.size)
         [] c.op = "writev" -> file_writev(S, f, c)
         [] c.op = "pwrite" -> file_pwrite(S, f, c.offset, c.size)
         [] c.op = "seek" -> file_seek(S, f, c.whence, c.offset)
         [] c.op = "truncate" -> native_truncate(S, f, c.size).state
         [] c.op = "allocate" -> native_allocate(S, f, c.offset + c.size).state
         [] c.op = "set_flags" -> native_set_flags(S, f, c.flags).state
         [] c.op = "stat" -> fill_stat(S, S.files[f].dentry)

\* a pipe has no name, and an inode of the pipe file system
open_pipe(S) ==
  open_file(alloc_inode([S EXCEPT !.dentries = Append(@,
              [live |-> TRUE, name |-> "", parent |-> NoDentry, node |-> NewInode(S), kids |-> <<>>])],
              "pipe"),
            New(S), {"read", "write", "unlink_on_close"})

\* both handles are on the one file
pipe_create(S, installed) ==
  IF installed THEN [open_pipe(S) EXCEPT !.files[NextFile(S)].handles = 2]
  ELSE close_file(open_pipe(S), NextFile(S))

close_handle(S, f) ==
  IF S.files[f].handles > 1 THEN [S EXCEPT !.files[f].handles = @ - 1] ELSE close_file(S, f)
-----------------------------------------------------------------------------
(* Start-up: the root image is unpacked into the root file system *)

load ==
  [dentries |-> <<[live |-> TRUE, name |-> "/", parent |-> NoDentry, node |-> 1, kids |-> <<>>]>>,
   inodes |-> <<new_inode("directory")>>, files |-> <<>>,
   dirs |-> <<[root |-> RootDentry, current |-> RootDentry]>>,
   boot |-> [root |-> RootDentry, current |-> RootDentry], ram_used |-> 0, crashed |-> FALSE]

parse_single(S, e) ==
  LET dir == [root |-> RootDentry, current |-> RootDentry]
      r == open_entry(S, dir, e.path, {"auto_create_file"})
      S1 == open_file(r.state, r.dentry, {"write"})
      S2 == IF e.size = 0 THEN S1 ELSE file_write(S1, NextFile(S), e.size)
      S3 == close_file(S2, NextFile(S))
  IN CASE e.tag = "file" -> [S3 EXCEPT !.files = S.files]
       [] e.tag = "link" -> link(S, dir, e.path, e.target).state
       [] e.tag = "symlink" -> symbolink(S, dir, e.path, e.target).state
       [] e.tag = "dir" -> mkdir(S, dir, e.path).state

tar_loader == FoldLeft(parse_single, load, VfsImage)
-----------------------------------------------------------------------------
VfsInit == vfs = tar_loader /\ vfsCalls = MaxVfsCalls

OpenFiles(S) == {f \in DOMAIN S.files : S.files[f].handles > 0}

VfsCall(S) ==
  /\ ~vfs.crashed
  /\ vfsCalls > 0
  /\ vfsCalls' = vfsCalls - 1
  /\ vfs' = S

call_directory ==
  /\ New(vfs) <= MaxDentries
  /\ NextFile(vfs) <= MaxOpens
  /\ \E c \in VfsCalls.directory, i \in DOMAIN vfs.dirs, delivered \in BOOLEAN :
       /\ delivered \/ c.op = "open"
       /\ VfsCall(publish_directory_call(vfs, vfs.dirs[i], c, delivered))

call_file ==
  \E c \in VfsCalls.file, f \in OpenFiles(vfs) : VfsCall(publish_file_call(vfs, f, c))

call_pipe ==
  /\ New(vfs) <= MaxDentries
  /\ NextFile(vfs) <= MaxOpens
  /\ \E installed \in BOOLEAN : VfsCall(pipe_create(vfs, installed))

\* handles are duplicated and closed by the resource table
call_duplicate ==
  \E f \in OpenFiles(vfs) :
    /\ vfs.files[f].handles = 1
    /\ VfsCall([vfs EXCEPT !.files[f].handles = 2])

call_close == \E f \in OpenFiles(vfs) : VfsCall(close_handle(vfs, f))

VfsNext == call_directory \/ call_file \/ call_pipe \/ call_duplicate \/ call_close

VfsSpec == VfsInit /\ [][VfsNext]_vfsVars
-----------------------------------------------------------------------------
(***************************************************************************)
(* An inode lives as long as a name or an open file needs it and no        *)
(* longer: its reference count is the number of files open on it, one that *)
(* has neither a link nor a file is freed (file::~file, vfs::unlink,       *)
(* vfs::rmdir), and neither the inode nor the dentry of an open file is,   *)
(* whatever is unlinked, removed, renamed or linked meanwhile.             *)
(***************************************************************************)
ReapedWithLastReference ==
  ~vfs.crashed =>
    /\ \A i \in DOMAIN vfs.inodes :
         vfs.inodes[i].live =>
           /\ vfs.inodes[i].refs =
                Cardinality({f \in OpenFiles(vfs) : vfs.dentries[vfs.files[f].dentry].node = i})
           /\ vfs.inodes[i].links > 0 \/ vfs.inodes[i].refs > 0
    /\ \A f \in OpenFiles(vfs) : LiveInode(vfs, vfs.files[f].dentry)
=============================================================================
