----------------------------- MODULE MCUpload -----------------------------
(***************************************************************************)
(* An instance of Upload for TLC.  Parts have two units and there may be   *)
(* three; uploads of more than three units are multipart.                  *)
(***************************************************************************)
EXTENDS Upload, TLC

CONSTANTS c1, c2

File(data) == [kind |-> "file", data |-> data, made |-> Len(data)]
Stream(data, made) == [kind |-> "stream", data |-> data, made |-> made]
Absent == [kind |-> "none", data |-> <<>>, made |-> 0]

(* One stream, whose key nobody else creates: too long by one part, with a *)
(* short last part, ending with a part, failing half-way, a single PUT     *)
(* and one without a whole trailer.                                        *)
Streams == {Stream(<<1, 2, 3, 4, 5, 6, 7>>, 7), Stream(<<1, 2, 3, 4, 5>>, 5), Stream(<<1, 2, 3, 4, 5, 6>>, 6),
            Stream(<<1, 2, 3, 4, 5>>, 4), Stream(<<1, 2, 3>>, 3), Stream(<<1, 2>>, 2)}

(* Two files for one key, with the same and with other content.  *)
Pairs == {<<File(<<1, 2, 3>>), File(<<1, 2, 3>>)>>, <<File(<<1, 2, 3>>), File(<<1, 4, 3>>)>>,
          <<File(<<1, 2>>), File(<<1, 2>>)>>, <<File(<<>>), File(<<1>>)>>}

MCSources ==
    {(c1 :> s) @@ (c2 :> Absent) : s \in Streams}
    \cup {(c1 :> p[1]) @@ (c2 :> p[2]) : p \in Pairs}

=============================================================================
