---------------------------- MODULE MCZoneReply ----------------------------
(***************************************************************************)
(* A small instance of ZoneReply for TLC.                                  *)
(***************************************************************************)
EXTENDS ZoneReply, TLC

CONSTANTS gz, vm, vm2, a, b, admin, external, p1, p2

\* The zone's two NICs have changed networks when it is started again.
Nics == [i \in 1..2 |-> (0 :> IF i = 1 THEN admin ELSE external)
                          @@ (1 :> IF i = 1 THEN external ELSE admin)]

OneName(kind, name) == [kind |-> kind, of |-> name]

Help == OneName("help", a)
Blank == OneName("help", NoName)
Type(name) == OneName("type", name)
Sample == OneName("sample", a)
Comment == OneName("comment", a)

\* Every text of up to two of these lines ...
Lines == {Help, Blank, Type(a), Type(b), Sample, Comment, OneName("badtype", a)}

UpTo(n) == UNION {[1..i -> Lines] : i \in 0..n}

\* ... and what a port prints if it is well-behaved, or nearly so.
Printed ==
    {<<Help, Type(a), Sample, Type(b), Sample>>,
     <<Type(b), Sample, Sample, Help, Type(a), Sample>>,
     <<OneName("option", a), Type(a), Sample>>,
     <<OneName("badoption", a)>>}

Texts == [p \in {p1, p2} |-> IF p = p1 THEN UpTo(2) ELSE Printed]
=============================================================================
