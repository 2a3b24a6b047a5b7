---------------------------- MODULE OutcomeExchange ----------------------------
(***************************************************************************)
(* What two parties sign and verify: canonical_json and the envelopes of   *)
(* _signing.py, and the outcome of outcome.py on its way from the          *)
(* delegatee's handler to the delegator.                                   *)
(*                                                                         *)
(* An envelope is verified over what the receiver serialises again.        *)
(* canonical_json sorts every dict of a payload for itself, as JSON does   *)
(* its keys, so a payload is the dicts in it, by the place where each of   *)
(* them stands, and the kind of value they hold in the end.  A dict is     *)
(* the sequence of its keys in insertion order.  A text is the sequence    *)
(* of its characters, by code point, counted from the digit zero.          *)
(***************************************************************************)
EXTENDS Integers, SequencesExt

CONSTANTS
  Char,     \* characters; 0..9 are the digits, "-" and "." come before them
  Place,    \* where in a payload a dict may stand
  Payload   \* [dicts, value]; a dict that is not there has no keys

(* A key is a string, a number (an int, a finite float or a bool), or None, with the
   text JSON has for it; number is where a number stands among all numbers. *)
Text == Seq(Char) \ {<<>>}
Key == [kind: {"str", "num", "none"}, text: Text, number: Int]
Value == {"plain", "null", "nan", "opaque"}

ASSUME CharAssumption == 0..9 \subseteq Char /\ Char \subseteq Int

(* str of a non-negative integer: no zero ahead of other digits. *)
Decimal(text) == text \in Seq(0..9) /\ (text[1] = 0 => Len(text) = 1)

(* The numbers that the first digits of a text write. *)
UpTo(text) ==
  LET number[n \in 0..Len(text)] == IF n = 0 THEN 0 ELSE 10 * number[n - 1] + text[n]
  IN  number

Number(text) == UpTo(text)[Len(text)]

Natural(k) == k.kind = "num" /\ Decimal(k.text)

(* Two keys of one kind differ in their texts, two numbers also in their places, and
   natural numbers are in the order of what they write. *)
ASSUME PayloadAssumption ==
  \A p \in Payload:
    /\ p \in [dicts: [Place -> Seq(Key)], value: Value]
    /\ \A at \in Place:
         \A k, l \in Range(p.dicts[at]):
           /\ k.kind = l.kind /\ k # l =>
                k.text # l.text /\ (k.kind = "num" => k.number # l.number)
           /\ Natural(k) /\ Natural(l) =>
                (k.number < l.number <=> Number(k.text) < Number(l.text))

VARIABLES
  payload,   \* what the handler has returned
  stage,     \* how far it has come
  signed,    \* the bytes the signature is over
  sent,      \* what arrives: a payload and payload_hash
  pending    \* whether the delegatee has stored its completion event

vars == <<payload, stage, signed, sent, pending>>

--------------------------------------------------------------------------------
TextBefore(s, t) ==
  \E n \in 0..Len(s):
    /\ n < Len(t)
    /\ \A i \in 1..n: s[i] = t[i]
    /\ n < Len(s) => s[n + 1] < t[n + 1]

Texts(dict) == {k.text: k \in Range(dict)}

KeyBefore(k, l) ==
  IF k.kind = "num" THEN k.number < l.number ELSE TextBefore(k.text, l.text)

Before(dict, s, t) ==
  \E k, l \in Range(dict): k.text = s /\ l.text = t /\ KeyBefore(k, l)

(* sorted(dict.items()) raises on keys that cannot be compared. *)
Sortable(dict) ==
  \/ Len(dict) <= 1
  \/ \E kind \in {"str", "num"}: \A k \in Range(dict): k.kind = kind

SortedKeys(dict) ==
  CHOOSE keys \in [1..Len(dict) -> Texts(dict)]:
    \A i, j \in 1..Len(dict): i < j => Before(dict, keys[i], keys[j])

(* json.dumps has an encoding for it. *)
Serialisable(p) == p.value # "opaque" /\ \A at \in Place: Sortable(p.dicts[at])

(* Variant with a bug: keys in the order in which they were inserted. *)
Insertion(p) ==
  [keys |-> [at \in Place |-> [i \in DOMAIN p.dicts[at] |-> p.dicts[at][i].text]],
   value |-> p.value]

(* canonical_json: each dict sorted by its Python keys, which are written as strings. *)
Canonical(p) ==
  [keys |-> [at \in Place |-> SortedKeys(p.dicts[at])], value |-> p.value]

(* Variant with a bug: a transport that hands the object itself over. *)
HandedOver(p) == p

(* JSONResponse and json.loads: insertion order is kept, every key is a string. *)
Strings(dict) == [i \in DOMAIN dict |-> [kind |-> "str", text |-> dict[i].text, number |-> 0]]
Decoded(p) == [p EXCEPT !.dicts = [at \in Place |-> Strings(p.dicts[at])]]

(* Outcome.payload_hash: collision free. *)
PayloadHash(p) == Canonical(p)

(* Variant with a bug: the signature leaves the payload to its hash. *)
HashAlone(p, hash) == [payload |-> <<>>, hash |-> hash]

(* The content of an outcome, as sign_envelope serialises it. *)
Content(p, hash) == [payload |-> Canonical(p), hash |-> hash]

(* Variant with a bug: the payload is taken as it was received. *)
AsReceived(p, hash) == [payload |-> Insertion(p), hash |-> hash]

(* verify_envelope serialises what was received by the same function. *)
ContentAgain(p, hash) == Content(p, hash)

Nothing == [none |-> TRUE]

Stage == {"made", "signed", "stored", "sent", "raised", "agreed", "disputed", "mismatch"}

TypeOK ==
  /\ payload \in Payload
  /\ stage \in Stage
  /\ pending \in BOOLEAN
  /\ sent # Nothing =>
       \A at \in Place: \A k \in Range(sent.payload.dicts[at]): k.kind = "str"

Init ==
  /\ payload \in Payload
  /\ stage = "made"
  /\ signed = Nothing
  /\ sent = Nothing
  /\ pending = FALSE

--------------------------------------------------------------------------------
(* make_outcome raises before anything is recorded. *)
Unserialisable ==
  /\ stage = "made"
  /\ ~Serialisable(payload)
  /\ stage' = "raised"
  /\ UNCHANGED <<payload, signed, sent, pending>>

(* make_outcome *)
SignOutcome ==
  /\ stage = "made"
  /\ Serialisable(payload)
  /\ signed' = Content(payload, PayloadHash(payload))
  /\ stage' = "signed"
  /\ UNCHANGED <<payload, sent, pending>>

(* Variant with a bug: the completion is stored before the outcome is signed. *)
StoreFirst ==
  /\ (stage = "made" /\ ~pending) \/ stage = "signed"
  /\ pending' = TRUE
  /\ stage' = IF stage = "made" THEN "made" ELSE "stored"
  /\ UNCHANGED <<payload, signed, sent>>

(* build_completion_event and append_pending: the event holds the hash alone. *)
StorePending ==
  /\ stage = "signed"
  /\ pending' = TRUE
  /\ stage' = "stored"
  /\ UNCHANGED <<payload, signed, sent>>

(* The endpoint returns.  There is no JSON for nan: the response fails, or null goes
   out in its place, as the version of the web framework has it. *)
Respond ==
  /\ stage = "stored"
  /\ \/ /\ payload.value # "nan"
        /\ sent' = [payload |-> Decoded(payload), hash |-> PayloadHash(payload)]
        /\ stage' = "sent"
     \/ /\ payload.value = "nan"
        /\ sent' = [payload |-> Decoded([payload EXCEPT !.value = "null"]),
                    hash |-> PayloadHash(payload)]
        /\ stage' = "sent"
     \/ /\ payload.value = "nan"
        /\ stage' = "raised"
        /\ UNCHANGED sent
  /\ UNCHANGED <<payload, signed, pending>>

(* verify_outcome: the signature over what was received, then the payload's hash. *)
VerifyOutcome ==
  /\ stage = "sent"
  /\ stage' = IF ContentAgain(sent.payload, sent.hash) # signed THEN "disputed"
              ELSE IF PayloadHash(sent.payload) # sent.hash THEN "mismatch"
              ELSE "agreed"
  /\ UNCHANGED <<payload, signed, sent, pending>>

Next == Unserialisable \/ SignOutcome \/ StorePending \/ Respond \/ VerifyOutcome

Spec == Init /\ [][Next]_vars

--------------------------------------------------------------------------------
(* Two numbers in a dict whose texts are in the other order. *)
Swapped(dict) ==
  \E k, l \in Range(dict):
    k.kind = "num" /\ l.kind = "num" /\ k.number < l.number /\ TextBefore(l.text, k.text)

NaturalsOfOneWidth(dict) ==
  \A k, l \in Range(dict): Natural(k) /\ Len(k.text) = Len(l.text)

(* An honest delegatee is disputed only over a value that has no JSON, or over a dict,
   at whatever depth, with two keys that sort differently as numbers and as texts: the
   ints 2 and 10, -1 and -2, the floats 1e-05 and 0.5.  Strings and None never are such
   keys, nor are natural numbers that all have as many digits. *)
DisputeExplained ==
  stage = "disputed" =>
    \/ payload.value = "nan"
    \/ \E at \in Place: Swapped(payload.dicts[at]) /\ ~NaturalsOfOneWidth(payload.dicts[at])

(* What passes the signature check passes the check of payload_hash: on its way
   between honest parties nothing but the signature ever turns an outcome down. *)
HashFollows == stage # "mismatch"

(* A completion whose answer never left is of an outcome that JSON has no text for:
   nothing else that canonical_json has signed fails once the event is stored. *)
OrphanExplained == stage = "raised" /\ pending => payload.value = "nan"

(* "enough as long as both sides serialize through this same function" (docstring of
   canonical_json).  Refuted: see the run outcome_int_keys. *)
SameFunctionSuffices == stage # "disputed"
================================================================================
