------------------------------ MODULE PosixFiles ------------------------------
(***************************************************************************)
(* The file descriptors of the POSIX runtime (runtime/POSIX/fd.c), which   *)
(* is linked into the program under test and executed with it.  Symbolic   *)
(* files live in the runtime; everything else goes to the operating        *)
(* system, whose answers are left open.  A file has bytes, an inode (0     *)
(* once it is unlinked) and a mode: a type, and "r" and "w", the           *)
(* permissions anybody has.  A call succeeds or returns -1; the errno      *)
(* values are not told apart.  Calls can be made to fail once each         *)
(* (-max-fail): the n-th call of a kind, for an arbitrary n.               *)
(***************************************************************************)
EXTENDS Integers, Sequences, FiniteSets

CONSTANTS
  MaxFds,           \* MAX_FDS
  Dfile,            \* exe_disk_file_t: the symbolic files
  ByPath,           \* those that have a name; the others are stdin and stdout
  Stdin, Stdout, Null,
  Byte,
  MaxOs,            \* bound on the descriptors of the operating system
  MaxOff,           \* the largest off64_t
  MaxBytes,         \* the largest buffer of a read or a write
  Page, DirentSize, \* 4096 and sizeof(struct dirent64)
  Stats,            \* the modes and owners of symbolic files that are tried
  Setups            \* the options that are tried, and a bound on the calls with each

ASSUME PosixFilesAssumption ==
  /\ MaxFds \in Nat /\ MaxFds > 2
  /\ ByPath \subseteq Dfile /\ Null \notin Dfile
  /\ MaxOs \in Nat /\ MaxOs > 2 /\ MaxOff \in Nat /\ MaxBytes \in 0 .. MaxOff
  /\ Page \in 0 .. MaxOff /\ DirentSize \in Nat \ {0}
  /\ \A s \in Setups :
       /\ s.failures \in Nat /\ s.size \in 0 .. MaxOff /\ s.calls \in Nat
       /\ s.saveAll \in BOOLEAN /\ s.stdin \in BOOLEAN /\ s.stdout \in BOOLEAN
       /\ (s.stdin => Stdin \in Dfile) /\ (s.stdout => Stdout \in Dfile)
       /\ s.fail \in [{"read", "write", "close", "ftruncate", "getcwd"} -> Nat]
  /\ \A s \in Stats : s.perms \subseteq {"r", "w"} /\ s.own \in BOOLEAN

VARIABLES
  env,           \* the options of klee_init_env
  fds,           \* __exe_env.fds
  disk,          \* the symbolic files
  umask,         \* __exe_env.umask, "r" and "w" only
  max_failures,  \* __exe_fs.max_failures
  n_calls,       \* the static counters of the calls that can fail
  osFds,         \* the operating system has given out 0 .. osFds - 1
  duped,         \* ghost: some descriptor of the system was duplicated
  wrapped,       \* ghost: a write moved an offset past MaxOff
  ok,            \* the last call did not return -1
  crash,         \* the error that ended the path: an assert, or bad memory
  calls          \* calls made so far

vars == <<env, fds, disk, umask, max_failures, n_calls, osFds, duped, wrapped, ok, crash, calls>>
files == <<disk, umask>>
counters == <<max_failures, n_calls>>
system == <<osFds, duped, wrapped>>

Fd == 0 .. MaxFds - 1
Flag == {"eOpen", "eCloseOnExec"}  \* eReadable and eWriteable are never read
Kind == {"read", "write", "close", "ftruncate", "getcwd"}
Permission == {"r", "w"}
Closed == [flags |-> {}, fd |-> 0, off |-> 0, dfile |-> Null]

Least(S) == CHOOSE x \in S : \A y \in S : x <= y
Lesser(x, y) == IF x < y THEN x ELSE y

\* off64_t, and what a sum is as one and as a size_t of the same width.
Off == -(MaxOff + 1) .. MaxOff
Signed(n) == ((n + MaxOff + 1) % (2 * (MaxOff + 1))) - (MaxOff + 1)
Unsigned(n) == n % (2 * (MaxOff + 1))

\* __get_file, and the loop that looks for a free entry.
IsOpen(fd) == fd \in Fd /\ "eOpen" \in fds[fd].flags
FreeFds == {fd \in Fd : "eOpen" \notin fds[fd].flags}

\* __get_sym_file.  Mutant: files are found after unlink.
FindDeleted(path) == IF path \in ByPath THEN path ELSE Null
GetSymFile(path) == IF path \in ByPath /\ disk[path].ino # 0 THEN path ELSE Null

Size(df) == Len(disk[df].contents)

\* has_permission: O_RDONLY is 0, so only O_RDWR asks for read access, and a
\* file that can be read is refused.
HasPermission(acc, perms) ==
  /\ ~(acc = "O_RDWR" /\ "r" \in perms)
  /\ ~(acc \in {"O_WRONLY", "O_RDWR"} /\ "w" \notin perms)

\* n_calls++, and the test of *__exe_fs.<kind>_fail against it.  The counter
\* stops where it no longer matters.
Count(kind) == [n_calls EXCEPT ![kind] = Lesser(@ + 1, env.fail[kind])]
Injected(kind) == max_failures > 0 /\ env.fail[kind] = n_calls[kind] + 1

Running == crash = "no" /\ calls < env.calls
\* The call is over: it failed, or it did what the other conjuncts say.
Returns(good) == ok' = good /\ calls' = calls + 1 /\ UNCHANGED <<env, crash>>
\* It is over, and nothing of the runtime has changed.
Answers(good) == Returns(good) /\ UNCHANGED <<fds, files, counters, system>>
Crashes(why) ==
  /\ crash' = why /\ ok' = FALSE /\ calls' = calls + 1
  /\ UNCHANGED <<env, fds, files, max_failures, system>>
-----------------------------------------------------------------------------
\* __exe_env and klee_init_fds: the first three descriptors are open, stdin
\* and stdout symbolic when asked for; what symbolic files hold is arbitrary.
Disk(size) ==
  {[contents |-> bytes, ino |-> 1, perms |-> s.perms, type |-> s.type, own |-> s.own] :
     bytes \in [1 .. size -> Byte], s \in Stats}

Init ==
  /\ env \in Setups
  /\ disk \in [Dfile -> Disk(env.size)]
  /\ fds = [fd \in Fd |->
              CASE fd = 0 -> [Closed EXCEPT !.flags = {"eOpen"},
                                            !.dfile = IF env.stdin THEN Stdin ELSE Null]
                [] fd = 1 -> [Closed EXCEPT !.flags = {"eOpen"}, !.fd = 1,
                                            !.dfile = IF env.stdout THEN Stdout ELSE Null]
                [] fd = 2 -> [Closed EXCEPT !.flags = {"eOpen"}, !.fd = 2]
                [] OTHER -> Closed]
  /\ umask = {"w"}
  /\ max_failures = env.failures
  /\ n_calls = [kind \in Kind |-> 0]
  /\ osFds = 3
  /\ duped = FALSE /\ wrapped = FALSE /\ ok = TRUE /\ crash = "no" /\ calls = 0

\* __fd_open on a symbolic file: the entry is cleared and gets its dfile
\* before the flags are checked; without O_CREAT the mode is 0.
\* Mutant: the mode is set before the permissions are checked.
ModeFirst(fd, df, acc, opts, mode) ==
  LET refused == "O_EXCL" \in opts \/ ~HasPermission(acc, disk[df].perms)
  IN
  /\ fds' = [fds EXCEPT ![fd] = [Closed EXCEPT !.dfile = df,
                                   !.flags = IF refused THEN {} ELSE {"eOpen"}]]
  /\ disk' = [disk EXCEPT ![df].perms = mode \ umask]
  /\ Returns(~refused)
  /\ UNCHANGED osFds
OpenSymbolic(fd, df, acc, opts, mode) ==
  LET refused == \/ {"O_CREAT", "O_EXCL"} \subseteq opts
                 \/ "O_EXCL" \in opts /\ "O_CREAT" \notin opts
                 \/ ~HasPermission(acc, disk[df].perms)
  IN
  /\ fds' = [fds EXCEPT ![fd] = [Closed EXCEPT !.dfile = df,
                                   !.flags = IF refused THEN {} ELSE {"eOpen"}]]
  /\ disk' = IF refused THEN disk ELSE [disk EXCEPT ![df].perms = mode \ umask]
  /\ Returns(~refused)
  /\ UNCHANGED osFds

\* __fd_open and __fd_openat on any other file.
OpenConcrete(fd) ==
  /\ \/ /\ fds' = [fds EXCEPT ![fd] = Closed]
        /\ Returns(FALSE)
        /\ UNCHANGED osFds
     \/ /\ osFds < MaxOs
        /\ fds' = [fds EXCEPT ![fd] = [Closed EXCEPT !.fd = osFds, !.flags = {"eOpen"}]]
        /\ osFds' = osFds + 1
        /\ Returns(TRUE)
  /\ UNCHANGED disk

\* Mutant: any closed entry will do.
Highest == CHOOSE fd \in FreeFds : \A d \in FreeFds : d <= fd
NewFd == Least(FreeFds)

Open(path, acc, opts, mode) ==
  LET df == GetSymFile(path)
  IN
  /\ Running
  /\ IF FreeFds = {} THEN Returns(FALSE) /\ UNCHANGED <<fds, disk, osFds>>
     ELSE IF df # Null THEN OpenSymbolic(NewFd, df, acc, opts, mode)
     ELSE OpenConcrete(NewFd)
  /\ UNCHANGED <<umask, counters, duped, wrapped>>

\* __fd_openat: basefd must be open and not symbolic.
OpenAt(basefd, path, acc, opts, mode) ==
  IF IsOpen(basefd) /\ fds[basefd].dfile = Null
    THEN Open(path, acc, opts, mode)
    ELSE Running /\ Answers(FALSE)

\* close: the descriptor of the operating system stays open.
Close(fd) ==
  /\ Running
  /\ n_calls' = Count("close")
  /\ max_failures' = IF IsOpen(fd) /\ Injected("close") THEN max_failures - 1
                     ELSE max_failures
  /\ fds' = IF IsOpen(fd) /\ ~Injected("close") THEN [fds EXCEPT ![fd] = Closed] ELSE fds
  /\ Returns(IsOpen(fd) /\ ~Injected("close"))
  /\ UNCHANGED <<files, system>>

\* dup2: what close(newfd) returns is ignored; it clears the entry that is
\* copied when both are the same.
Dup2(old, new) ==
  LET closes == IsOpen(new)
      injected == closes /\ Injected("close")
      table == IF closes /\ ~injected THEN [fds EXCEPT ![new] = Closed] ELSE fds
  IN
  /\ Running /\ IsOpen(old) /\ new \in Fd
  /\ fds' = [table EXCEPT ![new] = [table[old] EXCEPT !.flags = @ \ {"eCloseOnExec"}]]
  /\ n_calls' = IF closes THEN Count("close") ELSE n_calls
  /\ max_failures' = IF injected THEN max_failures - 1 ELSE max_failures
  /\ duped' = (duped \/ (fds[old].dfile = Null /\ old # new))
  /\ Returns(TRUE)
  /\ UNCHANGED <<files, osFds, wrapped>>

\* dup takes the first free entry; without one, or for a bad descriptor,
\* both calls fail.
Dup(old) ==
  IF IsOpen(old) /\ FreeFds # {}
    THEN Dup2(old, NewFd)
    ELSE Running /\ Answers(FALSE)
-----------------------------------------------------------------------------
\* What a call of the given kind does before it looks at the file: count,
\* refuse a bad descriptor, fail when it is its turn.
Refused(fd, kind) ==
  /\ ~IsOpen(fd) \/ Injected(kind)
  /\ max_failures' = IF IsOpen(fd) THEN max_failures - 1 ELSE max_failures
  /\ Returns(FALSE)
  /\ UNCHANGED fds

\* Bytes of df that a read of count bytes at off returns.
Readable(df, off, count) ==
  IF Size(df) < off THEN 0
  ELSE IF off + count > Size(df) THEN Size(df) - off ELSE count

\* The operating system has moved r bytes of the n that were asked for; it
\* knows no negative position and none past MaxOff.  Its streams have none.
Transfers(fd, n, streams) ==
  /\ IF fds[fd].fd \in streams THEN UNCHANGED fds
     ELSE \E r \in 0 .. Lesser(n, MaxOff - fds[fd].off) :
            fds[fd].off >= 0 /\ fds' = [fds EXCEPT ![fd].off = @ + r]
  /\ Returns(TRUE)

\* read; null is a buffer that is NULL.
Read(fd, count, null) ==
  LET f == fds[fd]
      asks == count > 0 /\ ~null
  IN
  /\ Running
  /\ n_calls' = Count("read")
  /\ \/ ~asks /\ Returns(count = 0) /\ UNCHANGED <<fds, max_failures>>
     \/ asks /\ Refused(fd, "read")
     \/ /\ asks /\ IsOpen(fd) /\ ~Injected("read") /\ f.dfile = Null
        /\ (Returns(FALSE) /\ UNCHANGED fds) \/ Transfers(fd, count, {0})
        /\ UNCHANGED max_failures
     \/ /\ asks /\ IsOpen(fd) /\ ~Injected("read") /\ f.dfile # Null /\ f.off >= 0
        /\ fds' = [fds EXCEPT ![fd].off = f.off + Readable(f.dfile, f.off, count)]
        /\ Returns(TRUE)
        /\ UNCHANGED max_failures
     \/ /\ asks /\ IsOpen(fd) /\ ~Injected("read") /\ f.dfile # Null /\ f.off < 0
        /\ Crashes("offset")
  /\ UNCHANGED <<files, system>>

\* Bytes that a write at off stores in df.
Stored(df, off, count) ==
  IF off + count <= Size(df) THEN count
  ELSE IF off < Size(df) THEN Size(df) - off ELSE 0

\* A write to a symbolic file: the offset moves by all of the bytes, stored
\* or not, and so may pass MaxOff.  A negative one is far past the end in
\* the first comparison and before it in the second: the bytes are copied to
\* before the file.  With -save-all-writes a file that would grow is an
\* assert(0).
WriteSymbolic(fd, buf) ==
  LET f == fds[fd]
      n == Stored(f.dfile, f.off, Len(buf))
      new == [i \in 1 .. f.off + n |->
                IF i > f.off THEN buf[i - f.off] ELSE disk[f.dfile].contents[i]]
      rest == SubSeq(disk[f.dfile].contents, f.off + n + 1, Size(f.dfile))
  IN
  IF env.saveAll /\ Unsigned(f.off + Len(buf)) > Size(f.dfile) THEN Crashes("write")
  ELSE IF f.off < 0 THEN Crashes("overrun")
  ELSE /\ disk' = IF n = 0 THEN disk
                  ELSE [disk EXCEPT ![f.dfile].contents = new \o rest]
       /\ fds' = [fds EXCEPT ![fd].off = Signed(f.off + Len(buf))]
       /\ wrapped' = (wrapped \/ f.off + Len(buf) > MaxOff)
       /\ Returns(TRUE)
       /\ UNCHANGED <<umask, max_failures, osFds, duped>>

\* A write to a file of the operating system.
WriteConcrete(fd, buf) ==
  /\ (Returns(FALSE) /\ UNCHANGED fds) \/ Transfers(fd, Len(buf), {1, 2})
  /\ UNCHANGED <<files, max_failures, system>>

Write(fd, buf) ==
  /\ Running
  /\ n_calls' = Count("write")
  /\ IF IsOpen(fd) /\ ~Injected("write")
       THEN IF fds[fd].dfile = Null THEN WriteConcrete(fd, buf) ELSE WriteSymbolic(fd, buf)
       ELSE Refused(fd, "write") /\ UNCHANGED <<files, system>>

\* A successful call that moves an offset and does nothing else.
MovesTo(fd, off) ==
  /\ fds' = [fds EXCEPT ![fd].off = off]
  /\ Returns(TRUE)
  /\ UNCHANGED <<files, counters, system>>

\* __fd_lseek, symbolic: a negative position is refused.
\* Mutant: it is not.
AnyPosition(f, offset, whence) ==
  CASE whence = "SEEK_SET" -> {offset}
    [] whence = "SEEK_CUR" -> {Signed(f.off + offset)}
    [] whence = "SEEK_END" -> {Signed(Size(f.dfile) + offset)}
    [] OTHER -> {}
Position(f, offset, whence) ==
  CASE whence = "SEEK_SET" -> {offset} \cap Nat
    [] whence = "SEEK_CUR" -> {Signed(f.off + offset)} \cap Nat
    [] whence = "SEEK_END" -> {Signed(Size(f.dfile) + offset)} \cap Nat
    [] OTHER -> {}

LseekSymbolic(fd, offset, whence) ==
  LET positions == Position(fds[fd], offset, whence)
  IN
  \/ positions = {} /\ Answers(FALSE)
  \/ \E off \in positions : MovesTo(fd, off)

\* Concrete: where the system goes is up to it.  For all but SEEK_SET it is
\* first sent to where the entry says it is, and an assert wants it there: a
\* device may have stayed where it was.
LseekSystem(fd, whence) ==
  \/ Answers(FALSE)
  \/ \E off \in 0 .. MaxOff : MovesTo(fd, off)
  \/ whence # "SEEK_SET" /\ Crashes("seek") /\ UNCHANGED n_calls

Lseek(fd, offset, whence) ==
  /\ Running
  /\ IF ~IsOpen(fd) THEN Answers(FALSE)
     ELSE IF fds[fd].dfile = Null THEN LseekSystem(fd, whence)
     ELSE LseekSymbolic(fd, offset, whence)
-----------------------------------------------------------------------------
\* __df_chmod: only the owner may change the mode.
DfChmod(df, mode) ==
  /\ disk' = IF disk[df].own THEN [disk EXCEPT ![df].perms = mode] ELSE disk
  /\ Returns(disk[df].own)
  /\ UNCHANGED <<fds, umask, counters, system>>

\* The operating system answers.
SystemCall == \E good \in BOOLEAN : Answers(good)

\* chmod and fchmod read chmod_fail and fchmod_fail, which klee_init_fds
\* never allocates, while failures are left.
Chmod(path, mode) ==
  /\ Running
  /\ IF max_failures > 0 THEN Crashes("null") /\ UNCHANGED n_calls
     ELSE IF GetSymFile(path) # Null THEN DfChmod(GetSymFile(path), mode)
     ELSE SystemCall

Fchmod(fd, mode) ==
  /\ Running
  /\ IF ~IsOpen(fd) THEN Answers(FALSE)
     ELSE IF max_failures > 0 THEN Crashes("null") /\ UNCHANGED n_calls
     ELSE IF fds[fd].dfile # Null THEN DfChmod(fds[fd].dfile, mode)
     ELSE SystemCall

\* __fd_ftruncate never changes a symbolic file.
Ftruncate(fd) ==
  /\ Running
  /\ n_calls' = Count("ftruncate")
  /\ \/ Refused(fd, "ftruncate")
     \/ /\ IsOpen(fd) /\ ~Injected("ftruncate")
        /\ \E good \in BOOLEAN : (good => fds[fd].dfile = Null) /\ Returns(good)
        /\ UNCHANGED <<fds, max_failures>>
  /\ UNCHANGED <<files, system>>

Getcwd ==
  /\ Running
  /\ n_calls' = Count("getcwd")
  /\ \/ Injected("getcwd") /\ Returns(FALSE) /\ max_failures' = max_failures - 1
     \/ /\ ~Injected("getcwd")
        /\ \E good \in BOOLEAN : Returns(good)
        /\ UNCHANGED max_failures
  /\ UNCHANGED <<fds, files, system>>

Umask(mask) ==
  /\ Running
  /\ umask' = mask
  /\ Returns(TRUE)
  /\ UNCHANGED <<fds, disk, counters, system>>

\* What rmdir, unlink and unlinkat do: a file of the right type loses its
\* inode, all else is refused.
Remove(path, type) ==
  LET df == GetSymFile(path)
      found == df # Null /\ disk[df].type = type
  IN
  /\ Running
  /\ disk' = IF found THEN [disk EXCEPT ![df].ino = 0] ELSE disk
  /\ Returns(found)
  /\ UNCHANGED <<fds, umask, counters, system>>

Rmdir(path) == Remove(path, "dir")
Unlink(path) == Remove(path, "reg")
Unlinkat(path) == Remove(path, "reg")

\* fcntl.  On a file of the system every command goes there; F_DUPFD then
\* gives out a descriptor that the table does not know.
Fcntl(fd, cmd) ==
  /\ Running
  /\ IF ~IsOpen(fd) THEN Answers(FALSE)
     ELSE IF fds[fd].dfile = Null
       THEN \/ SystemCall
            \/ /\ cmd = "F_DUPFD" /\ osFds < MaxOs
               /\ osFds' = osFds + 1
               /\ Returns(TRUE)
               /\ UNCHANGED <<fds, files, counters, duped, wrapped>>
     ELSE IF cmd \in {"F_SETFD", "FD_CLOEXEC"}
       THEN /\ fds' = [fds EXCEPT ![fd].flags = (@ \ {"eCloseOnExec"})
                         \cup IF cmd = "FD_CLOEXEC" THEN {"eCloseOnExec"} ELSE {}]
            /\ Returns(TRUE)
            /\ UNCHANGED <<files, counters, system>>
     ELSE Answers(cmd \in {"F_GETFD", "F_GETFL"})

\* __fd_getdents: below offset Page the symbolic files are listed, in
\* entries of DirentSize bytes, then a deleted file that fills the buffer up
\* to Page; from there on the directory of the system, Page bytes further
\* on.  The first part is written whatever the size of the buffer.
OwnEntries(f, count) ==
  LET n == Cardinality(ByPath)
      i == f.off \div DirentSize
  IN [valid |-> i * DirentSize = f.off /\ i <= n,
      bytes |-> (n - i + 1) * DirentSize,
      off |-> Lesser(count, Page)]

GetdentsOwn(fd, count) ==
  LET own == OwnEntries(fds[fd], count)
  IN
  IF ~own.valid THEN Answers(FALSE)
  ELSE \/ MovesTo(fd, own.off)
       \/ own.bytes > count /\ Crashes("overrun") /\ UNCHANGED n_calls

\* Both seeks of the system must succeed.  Past its last entry a directory
\* may be at MaxOff: then the sum is negative, until Page is taken off again.
GetdentsSystem(fd) ==
  \/ Answers(FALSE)
  \/ Crashes("seek") /\ UNCHANGED n_calls
  \/ \E pos \in 0 .. MaxOff : MovesTo(fd, Signed(pos + Page))

Getdents(fd, count) ==
  /\ Running
  /\ IF ~IsOpen(fd) \/ fds[fd].dfile # Null THEN Answers(FALSE)
     ELSE IF Unsigned(fds[fd].off) < Page THEN GetdentsOwn(fd, count)
     ELSE GetdentsSystem(fd)
-----------------------------------------------------------------------------
\* Calls that only answer.  A symbolic file is answered by the runtime, the
\* others by the operating system: the possible results.
OnPath(path, symbolic) == IF GetSymFile(path) # Null THEN {symbolic} ELSE BOOLEAN
OnDescriptor(fd, symbolic) ==
  IF ~IsOpen(fd) THEN {FALSE}
  ELSE IF fds[fd].dfile # Null THEN {symbolic} ELSE BOOLEAN
\* A path relative to a directory that is open: never a symbolic one.
OnPathAt(fd, path, symbolic) ==
  IF IsOpen(fd) /\ fds[fd].dfile = Null THEN OnPath(path, symbolic) ELSE {FALSE}

Access(path) == OnPath(path, TRUE)
Utimes(path) == OnPath(path, TRUE)
Futimesat(fd, path) == OnPathAt(fd, path, TRUE)
Stat(path) == OnPath(path, TRUE)
Fstatat(fd, path) == OnPathAt(fd, path, TRUE)
Lstat(path) == OnPath(path, TRUE)
Chdir(path) == OnPath(path, FALSE)
Fchdir(fd) == OnDescriptor(fd, FALSE)
Chown(path) == OnPath(path, FALSE)
Fchown(fd) == OnDescriptor(fd, FALSE)
Lchown(path) == OnPath(path, FALSE)
Fstat(fd) == OnDescriptor(fd, TRUE)
Statfs(path) == OnPath(path, FALSE)
Fstatfs(fd) == OnDescriptor(fd, FALSE)
Fsync(fd) == OnDescriptor(fd, TRUE)
Readlink(path) == OnPath(path, GetSymFile(path) # Null /\ disk[GetSymFile(path)].type = "lnk")
Chroot(path) == {path = "/"}

\* ioctl on a symbolic file.
Ioctl(fd, request) ==
  LET chr == fds[fd].dfile # Null /\ disk[fds[fd].dfile].type = "chr"
  IN OnDescriptor(fd, \/ request \in {"TCGETS", "TCSETS", "TCSETSF", "TIOCGWINSZ", "FIONREAD"} /\ chr
                      \/ request = "TCSETSW" /\ fd = 0)

\* Calls with no model: what they answer whatever their arguments.
FileStubs == {"mkdir", "mkfifo", "mknod", "pipe", "link", "symlink", "rename"}
WaitStubs == {"wait", "wait3", "wait4", "waitpid", "waitid"}
AclStubs == {"acl_delete_def_file", "acl_extended_file", "acl_entries", "acl_from_mode",
             "acl_get_fd", "acl_get_file", "acl_set_fd", "acl_set_file", "acl_free"}
MountStubs == {"mount", "umount", "umount2", "swapon", "swapoff"}
IdentityStubs == {"setgid", "setgroups", "sethostname", "setpgid", "setpgrp", "setpriority",
                  "setresgid", "setresuid", "setrlimit", "setrlimit64", "setsid",
                  "settimeofday", "setuid"}
MemoryStubs == {"reboot", "mlock", "munlock", "pause", "readahead", "mmap", "mmap64", "munmap"}
ProcessStubs == {"kill", "execl", "execlp", "execle", "execv", "execvp", "execve", "fork", "vfork"}
Stubs == FileStubs \cup WaitStubs \cup AclStubs \cup MountStubs \cup IdentityStubs
           \cup MemoryStubs \cup ProcessStubs
Stub(call) == {call \in {"setgid", "setuid"}}

\* select, one of its three sets: the descriptors of the system that are
\* asked for on behalf of the request, and the answer, of which the system's
\* part comes back as descriptors of the system.
SelectOs(request) == {fds[fd].fd : fd \in {d \in request : fds[d].dfile = Null}}
SelectBack(request, osReady) ==
  {fd \in request : IsOpen(fd) /\ fds[fd].dfile # Null}
    \cup {fd \in Fd : IsOpen(fd) /\ fds[fd].dfile = Null /\ fds[fd].fd \in osReady}

\* A symbolic descriptor is always ready; otherwise the system may fail.
Select(request) ==
  IF \E fd \in request : ~IsOpen(fd) THEN {FALSE}
  ELSE IF SelectOs(request) = {} \/ \E fd \in request : fds[fd].dfile # Null THEN {TRUE}
  ELSE BOOLEAN

InspectPath(path) ==
  UNION {Access(path), Utimes(path), Stat(path), Lstat(path), Chdir(path), Chown(path),
         Lchown(path), Statfs(path), Readlink(path), Chroot(path)}
InspectDescriptor(fd) ==
  UNION {Fchdir(fd), Fchown(fd), Fstat(fd), Fstatfs(fd), Fsync(fd), Select({fd}),
         Ioctl(fd, "TCGETS"), Ioctl(fd, "TCSETSW"), Ioctl(fd, "TIOCSWINSZ")}

\* Any of the calls that change nothing.
Inspect(fd, path) ==
  /\ Running
  /\ \E good \in InspectPath(path) \cup InspectDescriptor(fd)
                   \cup Futimesat(fd, path) \cup Fstatat(fd, path)
                   \cup UNION {Stub(call) : call \in Stubs} :
       Answers(good)

\* open and openat take their mode from the third argument with O_CREAT only.
ModeArgument(opts, mode) == IF "O_CREAT" \in opts THEN mode ELSE {}

Path == ByPath \cup {"/"}
Mode == {{}, {"r", "w"}}
Seeks == {-(MaxOff + 1), -1, 1, MaxOff} \cap Off
Buffer == UNION {[1 .. n -> Byte] : n \in 0 .. MaxBytes}

\* Once the path has ended nothing happens any more.
Ended == ~Running /\ UNCHANGED vars

Next ==
  \/ \E path \in Path, acc \in {"O_RDONLY", "O_WRONLY", "O_RDWR"},
        opts \in SUBSET {"O_CREAT", "O_EXCL"} :
       Open(path, acc, opts, ModeArgument(opts, {"w"}))
  \/ \E fd \in Fd :
       \/ Close(fd) \/ Dup(fd) \/ Ftruncate(fd)
       \/ \E new \in Fd : Dup2(fd, new)
       \/ \E count \in 0 .. MaxBytes, null \in BOOLEAN : Read(fd, count, null)
       \/ \E buf \in Buffer : Write(fd, buf)
       \/ \E offset \in Seeks, whence \in {"SEEK_SET", "SEEK_CUR", "SEEK_END"} :
            Lseek(fd, offset, whence)
       \/ \E mode \in Mode : Fchmod(fd, mode)
       \/ \E cmd \in {"F_SETFD", "FD_CLOEXEC", "F_GETFD", "F_DUPFD"} : Fcntl(fd, cmd)
       \/ \E count \in {DirentSize, Page, MaxOff} : Getdents(fd, count)
       \/ \E path \in Path : OpenAt(fd, path, "O_RDONLY", {}, {}) \/ Inspect(fd, path)
  \/ \E path \in Path :
       \/ \E mode \in Mode : Chmod(path, mode)
       \/ Rmdir(path) \/ Unlink(path) \/ Unlinkat(path)
  \/ Getcwd
  \/ \E mask \in Mode : Umask(mask)
  \/ Ended

Spec == Init /\ [][Next]_vars
-----------------------------------------------------------------------------
TypeOK ==
  /\ env \in Setups
  /\ fds \in [Fd -> [flags : SUBSET Flag, fd : Nat, off : Off, dfile : Dfile \cup {Null}]]
  /\ \A df \in Dfile : /\ disk[df].perms \subseteq Permission
                       /\ disk[df].ino \in {0, 1} /\ disk[df].own \in BOOLEAN
  /\ umask \subseteq Permission
  /\ max_failures \in 0 .. env.failures
  /\ osFds \in 3 .. MaxOs
  /\ duped \in BOOLEAN /\ wrapped \in BOOLEAN /\ ok \in BOOLEAN /\ calls \in 0 .. env.calls
  /\ crash \in {"no", "offset", "write", "null", "overrun", "seek"}

\* The assert of read fails in one way only: a write moved the offset past
\* the largest off64_t, where it turns negative.  No other sequence of seeks,
\* reads, writes and duplications gives a symbolic file a negative offset,
\* although each computes it, modulo the width, from the last, and a
\* duplicate has a copy of its own.
AssertsHold == crash = "offset" => wrapped

\* A symbolic file is as large as it was made, whatever is written where: its
\* bytes are in a block of that size, and write copies into it.
FilesKeepTheirSize == \A df \in Dfile : Size(df) = env.size

\* select answers about descriptors that were asked for, although the answer
\* of the system is translated by looking at every open entry: provided that
\* no descriptor of the system was duplicated, since dup and dup2 let two
\* entries share it.
SelectAnswersRequest ==
  ~duped =>
    \A request \in SUBSET {fd \in Fd : IsOpen(fd)} :
      \A ready \in SUBSET SelectOs(request) : SelectBack(request, ready) \subseteq request

\* Offsets, files and the answers of select are sound after every sequence of
\* calls of fd.c.
FilesSound == TypeOK /\ AssertsHold /\ FilesKeepTheirSize /\ SelectAnswersRequest

\* A call that fails leaves the open descriptors and the files alone: open
\* checks before it changes the mode, and clears an entry that was closed.
FailedCallsChangeNothing ==
  [][~ok' => /\ disk' = disk /\ umask' = umask
             /\ \A fd \in Fd : IsOpen(fd) \/ "eOpen" \in fds'[fd].flags => fds'[fd] = fds[fd]]_vars

\* After unlink or rmdir a file can be used by those who have it open, and
\* by nobody else: whatever is open on it was so before, or has just been
\* made by dup or dup2 from a descriptor that is open on it.
UnlinkedIsGone ==
  [][\A fd \in Fd :
       LET df == fds'[fd].dfile
           Has(d) == IsOpen(d) /\ fds[d].dfile = df
       IN "eOpen" \in fds'[fd].flags /\ df \in ByPath /\ disk[df].ino = 0 =>
            Has(fd) \/ \E old \in Fd : Has(old) /\ Dup2(old, fd)]_vars

\* The table of descriptors is that of FileTable.
File == (Dfile \cup {Null}) \X (0 .. MaxOs)
Table == INSTANCE FileTable
           WITH Fd <- Fd, File <- File, Shut <- <<>>,
                table <- [fd \in Fd |-> IF IsOpen(fd) THEN <<fds[fd].dfile, fds[fd].fd>> ELSE <<>>]
TableSpec == Table!Spec
=============================================================================
