------------------------------- MODULE MCPosix -------------------------------
EXTENDS PosixFiles

CONSTANTS A, Io, a

MCDfile == {A, Io}
MCByPath == {A}
MCByte == {a}

MCStats == {[perms |-> {"w"}, type |-> "reg", own |-> TRUE],
            [perms |-> {"r", "w"}, type |-> "dir", own |-> FALSE]}

Never == [kind \in {"read", "write", "close", "ftruncate", "getcwd"} |-> 0]
Setup(in, out, save, failures, fail, bound) ==
  [size |-> 1, stdin |-> in, stdout |-> out, saveAll |-> save,
   failures |-> failures, fail |-> fail, calls |-> bound]

MCSetups ==
  {Setup(TRUE, FALSE, FALSE, 0, Never, 4),
   Setup(FALSE, TRUE, TRUE, 1, [kind \in DOMAIN Never |-> 1], 3)}
=============================================================================
