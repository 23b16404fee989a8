------------------------------- MODULE Codecs -------------------------------
(***************************************************************************)
(* How a message looks on the wire and what the other end makes of it:     *)
(* net/protocol.py (both framings), protocol/header.py (the binary         *)
(* header) and the address, fragment and response helpers of               *)
(* utils/stream_protocol.py.                                               *)
(*                                                                         *)
(* A name is a sequence of words and delimiters, a number in it a digit;   *)
(* a payload is a sequence of units.  The fields of a fragment hold        *)
(* numbers below Modulus (2^16 in the code); names, payloads and sequences *)
(* fit in their fields.  Content types are carried along and never read.   *)
(***************************************************************************)
EXTENDS Naturals, Sequences, FiniteSets, SequencesExt

CONSTANTS
  None,    \* None
  Modulus  \* the numbers that fit in a field of FragmentInfo

FragmentInfos == [index : Nat, total : Nat, length : Nat]

ASSUME ModulusAssumption == Modulus \in Nat \ {0}
ASSUME NoneAssumption == None \notin Nat \union FragmentInfos

Digits == <<"0", "1", "2", "3", "4", "5", "6", "7", "8", "9">>

(* int(text): the number, or ValueError. *)
Parsed(text) ==
  IF Len(text) = 1 /\ text[1] \in ToSet(Digits)
  THEN SelectInSeq(Digits, LAMBDA d : d = text[1]) - 1
  ELSE None

(* split(delimiter, 1), where delimiter is in text. *)
At(text, delimiter) == SelectInSeq(text, LAMBDA t : t = delimiter)
Before(text, delimiter) == SubSeq(text, 1, At(text, delimiter) - 1)
After(text, delimiter) == SubSeq(text, At(text, delimiter) + 1, Len(text))

EncodeFrameAddress(sequence, name, channel) ==
  LET token == (IF sequence = None THEN <<>> ELSE <<Digits[sequence + 1], "|">>) \o name
  IN  IF token = <<>> THEN <<channel>> ELSE <<channel, "/">> \o token

(* decode_frame_address; the channel decides nothing but a warning.  Mutant: *)
(* the token is split at its last delimiter.                                 *)
DecodeFrameAddressLast(raw) ==
  LET token == IF Contains(raw, "/") THEN After(raw, "/") ELSE raw
      n == SelectLastInSeq(token, LAMBDA t : t = "|")
      number == Parsed(SubSeq(token, 1, n - 1))
  IN  [sequence |-> number,
       name |-> IF number = None THEN token ELSE SubSeq(token, n + 1, Len(token))]
DecodeFrameAddress(raw) ==
  LET token == IF Contains(raw, "/") THEN After(raw, "/") ELSE raw
      number == IF Contains(token, "|") THEN Parsed(Before(token, "|")) ELSE None
  IN  [sequence |-> number,
       name |-> IF number = None THEN token ELSE After(token, "|")]

-----------------------------------------------------------------------------
(* Message, with what most of its uses leave at the default. *)
Message(kind, name, payload, sequence) ==
  [kind |-> kind, name |-> name, payload |-> payload, sequence |-> sequence,
   fragmented |-> FALSE, index |-> None, total |-> None, length |-> None,
   stamp |-> None, version |-> 2]

Or(x, default) == IF x \in {None, 0} THEN default ELSE x

(* _build_fragment_info *)
FragmentInfo(m) ==
  IF ~m.fragmented /\ m.total \in {None, 0}
  THEN None
  ELSE [index |-> Or(m.index, 0), total |-> Or(m.total, 1),
        length |-> IF m.length = None THEN Len(m.payload) ELSE m.length]
More(m) ==
  LET fragment == FragmentInfo(m)
  IN  fragment # None /\ (fragment.index + 1 < fragment.total
                          \/ (m.fragmented /\ m.total = None))

(* FragmentInfo.validate *)
Valid(fragment) == fragment.total > 0 /\ fragment.index < fragment.total

(* _send_binary and to_bytes: the fragment is validated as it is, and then   *)
(* cut to its fields.                                                        *)
Packed(fragment) ==
  [index |-> fragment.index % Modulus, total |-> fragment.total % Modulus,
   length |-> fragment.length]
ToBinary(m) ==
  [version |-> m.version, kind |-> m.kind, sequence |-> Or(m.sequence, 0),
   name |-> m.name, payload |-> m.payload, stamp |-> Or(m.stamp, 0), more |-> More(m),
   fragment |-> IF FragmentInfo(m) = None THEN None ELSE Packed(FragmentInfo(m))]

(* _recv_binary and from_bytes.  No caller passes allow_legacy: main never   *)
(* runs handle_connection with legacy_mode.                                  *)
FromBinary(bytes) ==
  IF bytes.version # 2 \/ (bytes.fragment # None /\ ~Valid(bytes.fragment))
  THEN None
  ELSE LET fragment == IF bytes.fragment = None
                       THEN [index |-> None, total |-> None, length |-> None]
                       ELSE bytes.fragment
       IN  [kind |-> bytes.kind, name |-> bytes.name, payload |-> bytes.payload,
            sequence |-> bytes.sequence,
            fragmented |-> bytes.more \/ bytes.fragment # None,
            index |-> fragment.index, total |-> fragment.total,
            length |-> fragment.length, stamp |-> bytes.stamp, version |-> 2]

(* as_meta and _send_text; from_meta and _recv_text *)
ToText(m) ==
  [meta |-> IF m.name = <<>> THEN <<m.kind>> ELSE <<m.kind, ":">> \o m.name,
   payload |-> m.payload]
FromText(bytes) ==
  LET meta == bytes.meta
  IN  IF Contains(meta, ":")
      THEN Message(Before(meta, ":")[1], After(meta, ":"), bytes.payload, None)
      ELSE IF bytes.payload = <<>> /\ meta \in {<<"error">>, <<"eof">>, <<"data">>}
           THEN Message(meta[1], <<>>, <<>>, None)
           ELSE Message("data", meta, bytes.payload, None)

-----------------------------------------------------------------------------
(* iter_fragments, for a size that validate_fragment_size lets through. *)
IterFragments(payload, size) ==
  LET length == Len(payload)
      total == IF size = 0 \/ length <= size THEN 1 ELSE (length + size - 1) \div size
      end(i) == IF i = total THEN length ELSE i * size
  IN  [i \in 1..total |->
         [payload |-> SubSeq(payload, (i - 1) * size + 1, end(i)),
          index |-> i - 1, total |-> total, length |-> length]]

(* compose_response_payload and parse_response_payload *)
ComposeResponse(sequence, stamp, decoded, metrics) ==
  <<<<"response", sequence, stamp, Len(decoded), Len(metrics)>>>> \o decoded \o metrics
ParseResponse(body) ==
  IF body = <<>> \/ body[1][1] # "response" \/ Len(body) - 1 < body[1][4] + body[1][5]
  THEN None
  ELSE [sequence |-> body[1][2], stamp |-> body[1][3],
        decoded |-> SubSeq(body, 2, body[1][4] + 1)]
=============================================================================
