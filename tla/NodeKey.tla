------------------------------- MODULE NodeKey -------------------------------
(***************************************************************************)
(* The key that the panel sends with each request of the management API:   *)
(* the machine id of the node, padded, encrypted and encoded.  AES is      *)
(* external: the ciphertext of a key stands as the bytes it decrypts to.   *)
(* A key that cannot be decoded, because of its Base64 or its JSON or the  *)
(* Base64 inside it, is Garbled; no header at all is Missing.              *)
(***************************************************************************)
EXTENDS Integers, Sequences

CONSTANTS
    Bytes,      \* the values of a byte
    BlockSize,  \* of the cipher, 16
    MaxData,    \* bound: bytes of ciphertext
    MachineId,  \* the content of /etc/machine-id, without the white space around it
    Missing, Garbled

ASSUME KeyAssumption ==
    /\ Bytes \subseteq Nat
    /\ BlockSize \in Nat \ {0}
    /\ MaxData \in Nat
    /\ MachineId \in Seq(Bytes)

Data == UNION {[1..n -> Bytes] : n \in 0..MaxData}

Keys == [iv: BOOLEAN,  \* the IV has the size of a block
         data: Data]

Failed == [ok |-> FALSE, text |-> <<>>]
Plain(text) == [ok |-> TRUE, text |-> text]

-----------------------------------------------------------------------------
\* Mutant of RemovePKCS7Padding: only the last byte is looked at.
RemoveUncheckedPadding(data) ==
    LET n == Len(data) IN
    IF n > 0 /\ data[n] \in 1..n THEN Plain(SubSeq(data, 1, n - data[n])) ELSE Failed

\* Mutant of RemovePKCS7Padding: a whole block of padding is refused.
RemovePartialPadding(data) ==
    LET n == Len(data) IN
    IF /\ n > 0
       /\ data[n] \in 1..n \cap 1..BlockSize - 1
       /\ \A i \in n - data[n] + 1 .. n : data[i] = data[n]
      THEN Plain(SubSeq(data, 1, n - data[n]))
      ELSE Failed

\* removePKCS7Padding: as many bytes as the last one says, which all say so.
RemovePKCS7Padding(data) ==
    LET n == Len(data) IN
    IF /\ n > 0
       /\ data[n] \in 1..n
       /\ \A i \in n - data[n] + 1 .. n : data[i] = data[n]
      THEN Plain(SubSeq(data, 1, n - data[n]))
      ELSE Failed

\* The cipher panics when the IV or the data has not the size it expects.
Panics(key) == ~key.iv \/ Len(key.data) % BlockSize # 0

\* The machine id as the panel pads it, external: by one to BlockSize bytes.
Padded(text) ==
    LET p == BlockSize - (Len(text) % BlockSize) IN text \o [i \in 1..p |-> p]

\* The key the panel sends to this node.
PanelKey == [iv |-> TRUE, data |-> Padded(MachineId)]

\* A key that can be decoded is neither of these.
ASSUME HeaderAssumption == PanelKey \notin {Missing, Garbled}

=============================================================================
