------------------------------ MODULE MCAwgConfig ------------------------------
(* Instances of AwgConfig for TLC. *)
EXTENDS AwgConfig

H(t, spec) == [key |-> "h", type |-> t, value |-> spec]
S(t, n) == [key |-> "s", type |-> t, value |-> n]
J(key, n) == [key |-> key, value |-> n]

\* 4 and 0 differ so that a transport message of 112 bytes, padded, is as long
\* as an initiation that is not; with 116 bytes the lengths are equal without.
TwoPaddings == {0, 4}
Lengths == {112, 116}

\* Valid, rejected and half-rejected headers, one of them with every word in
\* its range; paddings; ranges of junk sizes of which one lies above the other.
Mixed == {
    <<H("init", <<0, 1>>)>>,
    <<H("transport", <<4, 5>>), S("transport", 4)>>,
    <<H("transport", <<0, WordSize - 1>>)>>,
    <<H("response", <<1, 2>>)>>,
    <<H("response", <<2>>), H("cookie", <<3, 2>>)>>,
    <<S("init", 4), S("response", 4), S("cookie", 4)>>,
    <<S("transport", 0), S("init", -1)>>,
    <<J("max", 2), J("min", 2), J("count", 1)>>,
    <<J("min", 3), J("max", 4)>>,
    <<J("count", 0)>> }

Overlapping == { <<H("response", <<1, 2>>)>> }
PaddedTransport == { <<S("transport", 4)>> }
===============================================================================
