-------------------------------- MODULE MCReqIf --------------------------------
(***************************************************************************)
(* Two files: requirements and a part in one, requirements that trace into *)
(* the first in the other.                                                 *)
(***************************************************************************)
EXTENDS ReqIf, TLC

CONSTANTS f, g, wp, wa, wb, wc, wd,
    base, lone, joined, moved, bad,             \* contents of f
    qualified, local, kinds, part, twice        \* contents of g

Order == <<f, g>>
MCVersions == f :> {base, lone, joined, moved, bad} @@ g :> {qualified, local, kinds, part, twice}

P == <<wp>>
A == <<P, <<wa>>>>                  \* p.a
B == <<P, <<wb>>>>                  \* p.b
D == <<P, <<wd>>>>                  \* p.d
AC == <<P, <<wa, wc>>>>             \* p.a_c
PAC == <<<<wp, wa>>, <<wc>>>>       \* p_a.c
Plain == <<<<wa>>>>                 \* a, as an annotation writes it

El(id, kind) == [id |-> id, kind |-> kind, doc |-> Nothing, block |-> Nothing, direct |-> Nothing]
Req(id) == [El(id, "requirement_def") EXCEPT !.block = "t"]
Need(id) == [El(id, "need_def") EXCEPT !.doc = <<"why">>, !.direct = "t"]
Part(id) == El(id, "part_def")
Edge(src, dst, kind) == [src |-> src, dst |-> dst, kind |-> kind]
Fact(elements, es, needs) ==
    [elements |-> elements, edges |-> es, needs |-> needs, errors |-> FALSE]

MCFacts ==
    [v \in Version |->
        CASE v = base -> Fact({Req(A), Part(D)}, {}, {})
          [] v = lone -> Fact({Need(A)}, {Edge(A, A, "traces")}, {A})
          [] v = joined -> Fact({Req(AC), Need(PAC), Req(A)}, {Edge(AC, PAC, "traces")}, {PAC})
          [] v = moved -> Fact({Part(D)}, {}, {})
          [] v = bad -> [Fact({Req(A)}, {}, {}) EXCEPT !.errors = TRUE]
          [] v = qualified -> Fact({Req(B)}, {Edge(B, A, "satisfies")}, {A})
          [] v = local -> Fact({Req(B)}, {Edge(B, Plain, "satisfies")}, {A})
          [] v = kinds -> Fact({Need(B)}, {Edge(B, A, "satisfies"), Edge(B, A, "traces"),
                                            Edge(B, A, "connects")}, {A})
          [] v = part -> Fact({Req(B)}, {Edge(D, B, "satisfies"), Edge(B, D, "traces")}, {D})
          [] v = twice -> Fact({Req(B), Part(A)}, {}, {})]
=============================================================================
