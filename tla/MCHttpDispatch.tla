---------------------------- MODULE MCHttpDispatch -----------------------------
(* Instances of HttpDispatch for TLC, and the talks their clients choose   *)
(* from.                                                                   *)
EXTENDS HttpDispatch

Say(line, headers, body, h2, frames) ==
  [line |-> line, headers |-> headers, body |-> body, h2 |-> h2, frames |-> frames]

(* Nothing, zero, leading zero, at and above MaxLength (12), no number.    *)
LengthTexts == {<<>>, <<0>>, <<2>>, <<0, 2>>, <<1, 2>>, <<1, 3>>, <<1, 10>>}
SomeHeaders == {Token("host"), Token("nocolon")} \cup {ContentLength(s) : s \in LengthTexts}
Handshake == {<<Token("upgrade"), Token("connection"), Token("settings")>>,
              <<Token("settings"), Token("upgrade"), Token("connection")>>}
FrameRows(n) == UNION {[1..m -> Frames] : m \in 0..n}

(* HTTP/1 requests with up to two headers and a body of any length.        *)
Http1Talks ==
  {Say("request", h, n, FALSE, <<>>) :
     h \in UNION {[1..m -> SomeHeaders] : m \in 0..2}, n \in 0..3}
  \cup {Say("short", <<Token("host")>>, 0, FALSE, <<>>)}
  \cup {Say("request", [i \in 1..5 |-> Token("host")], 1, FALSE, <<>>)}

(* Upgrades, alone or with the preface and frames; with a body; with a     *)
(* header that does not parse; with one of the three headers missing.      *)
UpgradeTalks ==
  {Say("request", h, 0, TRUE, f) : h \in Handshake, f \in FrameRows(2)}
  \cup {Say("request", h, n, FALSE, <<>>) : h \in Handshake, n \in 0..1}
  \cup {Say("request", Append(h, x), 1, b, <<>>) :
          h \in Handshake, x \in {Token("nocolon"), ContentLength(<<1>>)}, b \in BOOLEAN}
  \cup {Say("request", <<Token("upgrade"), Token("connection")>>, 0, TRUE, <<>>)}

(* The preface with frames; bytes that never make a head, frames without a *)
(* preface, and a preface after something else.                            *)
H2Talks == {Say("none", <<>>, 0, TRUE, f) : f \in FrameRows(3)}
JunkTalks ==
  {Say("none", <<>>, n, FALSE, <<>>) : n \in {1, MaxHead, MaxHead + 1, MaxHead + 2}}
  \cup {Say("none", <<>>, n, n = 1, <<"get">>) : n \in 0..1}

AllTalks == Http1Talks \cup UpgradeTalks \cup H2Talks \cup JunkTalks
================================================================================
