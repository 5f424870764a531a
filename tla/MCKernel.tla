------------------------------ MODULE MCKernel ------------------------------
(* Small instances of the parts of the kernel that share no state in the    *)
(* model: a behaviour is one of one part, while the others do nothing.      *)
EXTENDS WaitQueue, Vfs, AddressSpace, ServiceDirectory, DataPlane, Keyboard, Futex, Heap

CONSTANTS r1, t1, c1, c2
VARIABLE part

(* Files: an image with a directory, a file in it with two names, and a    *)
(* symbolic link.                                                          *)
Named(parts) == Relative(parts)
Absolute(parts) == [absolute |-> TRUE, parts |-> parts, slash |-> FALSE]
Slashed(parts) == [absolute |-> FALSE, parts |-> parts, slash |-> TRUE]
NoName == Named(<<>>)
Packed(tag, path, to) == [tag |-> tag, path |-> path, target |-> to, size |-> IF tag = "file" THEN 1 ELSE 0]
MCVfsImage ==
  <<Packed("dir", Slashed(<<"d">>), NoName), Packed("file", Named(<<"d", "a">>), NoName),
    Packed("link", Named(<<"h">>), Named(<<"d", "a">>)), Packed("symlink", Named(<<"s">>), Named(<<"d">>))>>

OnDirectory(op, path, second, flags, mode) ==
  [op |-> op, path |-> path, second |-> second, flags |-> flags, mode |-> mode]
OnFile(op, flags, whence, offset, size) ==
  [op |-> op, lengths |-> <<1>>, flags |-> flags, whence |-> whence, offset |-> offset, size |-> size]
Pairs == {<<Named(<<"d", "a">>), Named(<<"b">>)>>, <<Named(<<"d">>), Named(<<"s", "e">>)>>,
          <<Named(<<"h">>), Named(<<"d", "..", "b">>)>>}
MCVfsCalls ==
  [directory |->
     {OnDirectory("open", Named(p), NoName, {}, {"read", "write"}) :
        p \in {<<"d", "a">>, <<"h">>, <<"d">>, <<"s", "a">>, <<"b">>}}
     \cup {OnDirectory("open", Named(<<"s", "a">>), NoName, {"trunc"}, m) : m \in {{"read"}, {"write"}}}
     \cup {OnDirectory("open", Named(<<"s", "b">>), NoName, {"auto_create_file"}, {"write"}),
           OnDirectory("open", Absolute(<<"d">>), NoName, {"chroot", "directory"}, {"read"}),
           OnDirectory("open", Named(<<"e">>), NoName, {"auto_create_file", "directory"}, {"read"}),
           OnDirectory("open", NoName, NoName, {}, {"read"}),
           OnDirectory("create", Named(<<"b">>), NoName, {}, {}),
           OnDirectory("mkdir", Slashed(<<"e">>), NoName, {}, {}),
           OnDirectory("mkdir", Named(<<"h">>), NoName, {}, {}),
           OnDirectory("symlink", Named(<<"b">>), Named(<<"e">>), {}, {}),
           OnDirectory("symlink", Named(<<"s">>), Named(<<"s", "b">>), {}, {}),
           OnDirectory("access", Named(<<"..", "h">>), NoName, {}, {}),
           OnDirectory("readlink", Named(<<"s">>), NoName, {}, {})}
     \cup {OnDirectory(op, Named(p), NoName, {}, {}) :
             op \in {"unlink", "rmdir"}, p \in {<<"d", "a">>, <<"h">>, <<"s">>, <<"d">>, <<"e">>}}
     \cup {OnDirectory(op, p[1], p[2], {}, {}) : op \in {"rename", "link"}, p \in Pairs}
     \cup {OnDirectory(op, NoName, NoName, {}, {}) : op \in {"path", "list", "stat", "set_root", "set_current"}},
   file |->
     {OnFile("read", {}, 0, 0, 1), OnFile("write", {}, 0, 0, 1), OnFile("readv", {}, 0, 0, 2),
      OnFile("writev", {}, 0, 0, 1), OnFile("pread", {}, 0, 0, 1), OnFile("stat", {}, 0, 0, 1),
      OnFile("pwrite", {}, 0, 1, 2), OnFile("seek", {}, 0, 1, 0), OnFile("seek", {}, 1, 0, 0),
      OnFile("seek", {}, 2, 0, 0), OnFile("truncate", {}, 0, 0, 1), OnFile("allocate", {}, 0, 1, 1),
      OnFile("set_flags", {"append"}, 0, 0, 0)}]

(* Memory: an image of two pages and a heap; behaviours begin at boot or   *)
(* after a fork.                                                           *)
MCImage == {Area(1, 2, "file", FALSE), Area(2, 3, "file", TRUE)}
Touch(p, v, w) == [op |-> "access", p |-> p, v |-> v, write |-> w]
Mapped(p, m, w, h, n) ==
  [op |-> "map", p |-> p, method |-> m, w |-> w, hint |-> h, size |-> n, granted |-> TRUE, copied |-> TRUE]
Fork(p, q) == [op |-> "fork", p |-> p, q |-> q]
MCMmCalls ==
  {Touch(p, v, w) : p \in Spaces, v \in {1, 2, 3, 5, 6}, w \in BOOLEAN}
  \cup {Mapped(p, m, w, 0, 1) : p \in Spaces, m \in {"common", "physical"}, w \in BOOLEAN}
  \cup {Mapped(p, "common", TRUE, 6, 2) : p \in Spaces}
  \cup {[Mapped(1, "physical", TRUE, 0, 1) EXCEPT !.granted = g, !.copied = FALSE] : g \in BOOLEAN}
  \cup {[op |-> "unmap", p |-> p, start |-> v, size |-> 1] : p \in Spaces, v \in {1, 2, 5, 6}}
  \cup {[op |-> "brk", p |-> p, ptr |-> v] : p \in Spaces, v \in {3, 5}}
  \cup {Fork(p, q) : p, q \in Spaces}
  \cup {[op |-> op, p |-> p] : op \in {"exit", "open"}, p \in Spaces}
MCMmStarts ==
  {<<>>,
   <<Touch(1, 1, FALSE), Touch(1, 2, TRUE), Mapped(1, "common", TRUE, 0, 1), Touch(1, 5, TRUE), Fork(1, 2)>>,
   <<Touch(1, 1, FALSE), Touch(1, 2, TRUE), Mapped(1, "common", FALSE, 0, 1), Fork(1, 2), Touch(2, 5, FALSE)>>,
   <<[op |-> "open", p |-> 1], Touch(1, 2, TRUE), Mapped(1, "physical", TRUE, 0, 1), Fork(1, 2)>>}

(* Services: two owners of one name, and a name of the system. *)
MCObjects == {<<"object", "unique">>, <<"object", "shared">>}
MCUniqueObjects == {<<"object", "unique">>}
Uri(system, sizes) ==
  [prefix |-> TRUE, system |-> system, segments |-> [k \in DOMAIN sizes |-> [size |-> sizes[k], dots |-> FALSE]]]
ServiceName == Uri(FALSE, <<3>>)
SystemName == Uri(TRUE, <<6, 3>>)
MCSdRequests ==
  {[op |-> "register", pid |-> r[1], uri |-> r[2], object |-> r[3], moved |-> TRUE] :
     r \in {<<101, ServiceName, <<"object", "unique">>>>, <<102, SystemName, <<"object", "shared">>>>}}
  \cup {[op |-> "listen", pid |-> r[1], uri |-> ServiceName, channel |-> r[2], pending |-> 1] :
          r \in {<<101, "l1">>, <<102, "l2">>}}
  \cup {[op |-> "connect", pid |-> 102, uri |-> ServiceName, matches |-> TRUE],
        [op |-> "resolve", pid |-> 102, uri |-> ServiceName],
        [op |-> "unregister", pid |-> 102, uri |-> ServiceName],
        [op |-> "list", pid |-> 102, uri |-> ServiceName, offset |-> 0, room |-> 1]}
MCOwnerOf == [c \in {"l1", "l2"} |-> IF c = "l1" THEN 101 ELSE 102]

(* Keyboard: the press of a plain key, and the release of a key with a     *)
(* two-byte code.                                                          *)
MCKeystrokes ==
  {[bytes |-> <<30>>, key |-> 30, release |-> FALSE],
   [bytes |-> <<224, 200>>, key |-> 152, release |-> TRUE]}

(* Heap: the classes of the kernel; behaviours begin empty, before a slab  *)
(* is full, and with three full slabs.                                     *)
MCKmallocSizes ==
  <<8, 16, 24, 32, 40, 48, 56, 64, 80, 96, 112, 128, 160, 192, 256, 384, 448, 512, 768, 960,
    1024, 1536, 2048, 3072, 4096, 6144, 8192>>
MCHeapStarts == {<<0, 1>>, <<13, 8000>>, <<21, 8192>>}

-----------------------------------------------------------------------------
Parts == {"threads", "files", "memory", "services", "rings", "keyboard", "futex", "heap"}

\* Of a part that is not booted.
Off == [crashed |-> TRUE]

KernelInit ==
  /\ part \in Parts
  /\ Init /\ SdInit /\ DpInit /\ KbInit /\ FxInit
  /\ part # "threads" => cpuid = [t \in Threads |-> c1]
  /\ IF part = "files" THEN VfsInit ELSE vfs = Off /\ vfsCalls = 0
  /\ IF part = "memory" THEN MmInit ELSE mm = Off /\ mmCalls = 0
  /\ IF part = "heap" THEN HeapInit ELSE groups = <<>> /\ handed = {} /\ heapCalls = 0

KernelNext ==
  /\ UNCHANGED part
  /\ \/ part = "threads" /\ Next
        /\ UNCHANGED <<vfsVars, mmVars, sdVars, dpVars, kbVars, fxVars, heapVars>>
     \/ part = "files" /\ VfsNext
        /\ UNCHANGED <<vars, mmVars, sdVars, dpVars, kbVars, fxVars, heapVars>>
     \/ part = "memory" /\ MmNext
        /\ UNCHANGED <<vars, vfsVars, sdVars, dpVars, kbVars, fxVars, heapVars>>
     \/ part = "services" /\ SdNext
        /\ UNCHANGED <<vars, vfsVars, mmVars, dpVars, kbVars, fxVars, heapVars>>
     \/ part = "rings" /\ DpNext
        /\ UNCHANGED <<vars, vfsVars, mmVars, sdVars, kbVars, fxVars, heapVars>>
     \/ part = "keyboard" /\ KbNext
        /\ UNCHANGED <<vars, vfsVars, mmVars, sdVars, dpVars, fxVars, heapVars>>
     \/ part = "futex" /\ FxNext
        /\ UNCHANGED <<vars, vfsVars, mmVars, sdVars, dpVars, kbVars, heapVars>>
     \/ part = "heap" /\ HeapNext
        /\ UNCHANGED <<vars, vfsVars, mmVars, sdVars, dpVars, kbVars, fxVars>>

KernelSpec == KernelInit /\ [][KernelNext]_<<part, vars, vfsVars, mmVars, sdVars, dpVars, kbVars, fxVars, heapVars>>
=============================================================================
