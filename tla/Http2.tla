------------------------------- MODULE Http2 -------------------------------
(* The HTTP/2 collector: the frame reader, the HPACK name decoder and the  *)
(* Akamai fingerprint. Names are sequences of bytes, a pseudo-header's     *)
(* starts with a colon; a name of the static table is abbreviated. Values  *)
(* of 32 bits stay as their four bytes. A reader returns the set of its    *)
(* results: none after an error, else one.                                 *)
EXTENDS Integers, Sequences, SequencesExt

CONSTANTS Preface,      \* the client's connection preface
          MaxShift,     \* the longest HPACK integer, 56 in the code
          KnownAkamai   \* fingerprints of browsers: a function from browser names

FrameHeaders == 1
FramePriority == 2
FrameSettings == 4
FrameWindowUpdate == 8

Colon == 58
Pseudo == [authority |-> <<Colon, 97>>, method |-> <<Colon, 109>>, path |-> <<Colon, 112>>,
           scheme |-> <<Colon, 115>>, status |-> <<Colon, 116>>]
HpackStaticNames ==
  [i \in 1..61 |-> IF i = 1 THEN Pseudo.authority ELSE IF i <= 3 THEN Pseudo.method
                   ELSE IF i <= 5 THEN Pseudo.path ELSE IF i <= 7 THEN Pseudo.scheme
                   ELSE IF i <= 14 THEN Pseudo.status ELSE <<100 + i>>]

From(d, o) == SubSeq(d, o + 1, Len(d))
Bit(b, v) == (b \div v) % 2 = 1

Byte == 0..255
Table == Seq(Seq(Byte))       \* the decoder's dynamic table

\* readHPACKInt: the value and what follows it. Each byte of a long value adds
\* seven bits.
Continue(d, mask) ==
  LET from[i \in 1..(Len(d) + 1)] ==
        IF i > Len(d) \/ 7 * (i - 1) > MaxShift THEN {}
        ELSE LET v == (d[i] % 128) * 2 ^ (7 * (i - 1))
             IN  IF d[i] < 128 THEN {[val |-> mask + v, rest |-> From(d, i)]}
                 ELSE {[n EXCEPT !.val = @ + v] : n \in from[i + 1]}
  IN  from[1]
ReadHPACKInt(d, prefix) ==
  LET mask == 2 ^ prefix - 1
  IN  IF d = <<>> THEN {}
      ELSE IF d[1] % 2 ^ prefix < mask THEN {[val |-> d[1] % 2 ^ prefix, rest |-> Tail(d)]}
      ELSE Continue(Tail(d), mask)

\* A Huffman-coded string is skipped and reads as the empty string.
ReadHPACKString(d) ==
  {[val |-> IF Bit(d[1], 128) THEN <<>> ELSE SubSeq(n.rest, 1, n.val),
    rest |-> From(n.rest, n.val)] :
     n \in {m \in ReadHPACKInt(d, 7) : m.val <= Len(m.rest)}}

LookupName(dynamic, index) ==
  IF index = 0 THEN <<>>
  ELSE IF index <= 61 THEN HpackStaticNames[index]
  ELSE IF index - 61 <= Len(dynamic) THEN dynamic[index - 61] ELSE <<>>
AddDynamicName(dynamic, name) == IF name = <<>> THEN dynamic ELSE <<name>> \o dynamic

\* The name of a literal field, by index or spelled out; its value is skipped.
ReadLiteralName(dynamic, d, prefix) ==
  UNION {IF i.val > 0
         THEN {[val |-> LookupName(dynamic, i.val), rest |-> v.rest] : v \in ReadHPACKString(i.rest)}
         ELSE UNION {{[val |-> n.val, rest |-> v.rest] : v \in ReadHPACKString(n.rest)} :
                       n \in ReadHPACKString(i.rest)}
         : i \in ReadHPACKInt(d, prefix)}

\* decode: the names of a block and the dynamic table after it. Nothing leaves
\* the table and a table size update only skips its bytes.
Named(n) == IF n = <<>> THEN <<>> ELSE <<n>>
Decode(block, table) ==
  LET from[d \in Seq(Byte), dynamic \in Table] ==
        LET After(n, shown, kept) ==
              {[names |-> Named(shown) \o r.names, dynamic |-> r.dynamic] : r \in from[n.rest, kept]}
        IN  IF d = <<>> THEN {[names |-> <<>>, dynamic |-> dynamic]}
            ELSE IF Bit(d[1], 128)
            THEN UNION {After(i, LookupName(dynamic, i.val), dynamic) : i \in ReadHPACKInt(d, 7)}
            ELSE IF Bit(d[1], 64)
            THEN UNION {After(n, n.val, AddDynamicName(dynamic, n.val)) :
                          n \in ReadLiteralName(dynamic, d, 6)}
            ELSE IF Bit(d[1], 32)
            THEN UNION {After(i, <<>>, dynamic) : i \in ReadHPACKInt(d, 5)}
            ELSE UNION {After(n, n.val, dynamic) : n \in ReadLiteralName(dynamic, d, 4)}
  IN  from[block, table]
-----------------------------------------------------------------------------
U24(d, o) == 65536 * d[o + 1] + 256 * d[o + 2] + d[o + 3]
Masked(word) == <<word[1] % 128>> \o Tail(word)      \* & 0x7fffffff
Zero == <<0, 0, 0, 0>>

ParseSettings(p) ==
  IF Len(p) % 6 # 0 THEN {}
  ELSE {[i \in 1..(Len(p) \div 6) |-> [id |-> SubSeq(p, 6 * i - 5, 6 * i - 4),
                                       value |-> SubSeq(p, 6 * i - 3, 6 * i)]]}
ParseWindowUpdate(p) == IF Len(p) # 4 THEN {} ELSE {Masked(p)}
ParsePriority(p, stream) ==
  IF Len(p) # 5 THEN {}
  ELSE {[stream |-> stream, exclusive |-> p[1] >= 128, dependsOn |-> Masked(SubSeq(p, 1, 4)),
         weight |-> p[5]]}

\* parseHeaders: padding, priority, block. The mutant leaves the padding there.
UnpaddedFront(p, flags) == IF ~Bit(flags, 8) THEN {p} ELSE IF p = <<>> THEN {} ELSE {Tail(p)}
Unpadded(p, flags) ==
  IF ~Bit(flags, 8) THEN {p}
  ELSE IF p = <<>> \/ p[1] > Len(p) - 1 THEN {} ELSE {SubSeq(p, 2, Len(p) - p[1])}
Prioritised(p, flags, stream) ==
  IF ~Bit(flags, 32) THEN {[priority |-> <<>>, block |-> p]}
  ELSE IF Len(p) < 5 THEN {}
  ELSE {[priority |-> <<x>>, block |-> From(p, 5)] : x \in ParsePriority(SubSeq(p, 1, 5), stream)}
ParseHeaders(payload, flags, stream, dynamic) ==
  LET parts == UNION {Prioritised(p, flags, stream) : p \in Unpadded(payload, flags)}
  IN  UNION {{[priority |-> x.priority, dynamic |-> d.dynamic,
               pseudo |-> SelectSeq(d.names, LAMBDA n : n[1] = Colon),
               regular |-> SelectSeq(d.names, LAMBDA n : n[1] # Colon)] :
                d \in Decode(x.block, dynamic)} : x \in parts}

\* One frame and the dynamic table after it.
ParseFrame(type, flags, stream, payload, dynamic) ==
  LET plain == [type |-> type, stream |-> stream, settings |-> <<>>, window |-> Zero,
                priority |-> <<>>, pseudo |-> <<>>, regular |-> <<>>]
      Keep(frame) == [frame |-> frame, dynamic |-> dynamic]
  IN  CASE type = FrameSettings ->
             {Keep([plain EXCEPT !.settings = s]) : s \in ParseSettings(payload)}
        [] type = FrameWindowUpdate ->
             {Keep([plain EXCEPT !.window = w]) : w \in ParseWindowUpdate(payload)}
        [] type = FramePriority ->
             {Keep([plain EXCEPT !.priority = <<p>>]) : p \in ParsePriority(payload, stream)}
        [] type = FrameHeaders ->
             {[frame |-> [plain EXCEPT !.priority = h.priority, !.pseudo = h.pseudo,
                                       !.regular = h.regular],
               dynamic |-> h.dynamic] : h \in ParseHeaders(payload, flags, stream, dynamic)}
        [] OTHER -> {Keep(plain)}

ParseFrames(bytes) ==
  LET from[d \in Seq(Byte), dynamic \in Table] ==
        IF d = <<>> THEN {<<>>}
        ELSE IF Len(d) < 9 \/ Len(d) < 9 + U24(d, 0) THEN {}
        ELSE UNION {{<<f.frame>> \o rest : rest \in from[From(d, 9 + U24(d, 0)), f.dynamic]} :
                      f \in ParseFrame(d[4], d[5], Masked(SubSeq(d, 6, 9)),
                                       SubSeq(d, 10, 9 + U24(d, 0)), dynamic)}
  IN  from[IF IsPrefix(Preface, bytes) THEN From(bytes, Len(Preface)) ELSE bytes, <<>>]
-----------------------------------------------------------------------------
\* ComputeAkamaiFingerprint: the first settings, the first increment of the
\* connection, every priority, the first order of pseudo-headers; <<>> if there
\* is none of them.
FirstOf(s, Good(_), default) ==
  LET at == {i \in DOMAIN s : Good(s[i])} IN IF at = {} THEN default ELSE s[Min(at)]
Settings(frames) == FirstOf([i \in DOMAIN frames |-> frames[i].settings],
                            LAMBDA s : s # <<>>, <<>>)
Akamai(frames) ==
  LET own == SelectSeq(frames, LAMBDA f : f.stream = Zero)
      window == FirstOf([i \in DOMAIN own |-> own[i].window], LAMBDA w : w # Zero, Zero)
      priorities == FlattenSeq([i \in DOMAIN frames |-> frames[i].priority])
      pseudo == FirstOf([i \in DOMAIN frames |-> frames[i].pseudo], LAMBDA p : p # <<>>, <<>>)
  IN  IF <<Settings(frames), window, priorities, pseudo>> = <<<<>>, Zero, <<>>, <<>>>> THEN <<>>
      ELSE <<Settings(frames), window, priorities,
             SelectSeq(pseudo, LAMBDA n : n \in {Pseudo[x] : x \in DOMAIN Pseudo \ {"status"}})>>
AkamaiBytes(d) == {Akamai(f) : f \in ParseFrames(d)}

\* akamaiSignal: the declared browser's own fingerprint, or else a known one.
AkamaiMismatch(browser, akamai) ==
  IF browser \in DOMAIN KnownAkamai THEN akamai # KnownAkamai[browser]
  ELSE \A b \in DOMAIN KnownAkamai : akamai # KnownAkamai[b]

\* Collect when frames were captured; frames that do not parse raise nothing.
CollectFrames(d, browser) ==
  IF d # <<>> /\ \E a \in AkamaiBytes(d) : a # <<>> /\ AkamaiMismatch(browser, a)
  THEN {"h2_akamai_mismatch"} ELSE {}
=============================================================================
