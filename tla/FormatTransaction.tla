-------------------------- MODULE FormatTransaction --------------------------
(***************************************************************************)
(* formatTransaction (web3-eth/src/format_transaction.ts): copy a          *)
(* transaction, convert its primitive numeric fields and the customChain   *)
(* ids to the desired number format, and move `input` to `data`, or throw  *)
(* when both are set.                                                      *)
(*                                                                         *)
(* A field value is abstracted to its kind: absent/undefined, null, an     *)
(* object or array (a BN, say), the string '0x', a string that is not a    *)
(* number, or a number in one of the number formats.  The code is a loop   *)
(* over a list of fields followed by two more phases; it is modelled as a  *)
(* FoldLeft over that list and compared with a declarative reference.      *)
(***************************************************************************)
EXTENDS Integers, Sequences, FiniteSets
LOCAL SeqExt == INSTANCE SequencesExt

CONSTANTS
    Fields,    \* the keys a transaction may carry (a subset of Keys below)
    Formats    \* the desired number formats (ValidTypes)

VARIABLES
    tx,        \* the argument
    desired,   \* desiredType
    out        \* the outcome: not yet called, returned, or thrown

vars == <<tx, desired, out>>

Val(k) == [k |-> k, f |-> "none"]
Num(f) == [k |-> "num", f |-> f]
Undef    == Val("undef")     \* absent or undefined
Null     == Val("null")
Obj      == Val("obj")       \* typeof 'object': an object, an array, a BN
EmptyHex == Val("0x")        \* the string '0x'
Bad      == Val("bad")       \* a string convertToValidType rejects
Hex      == Val("hex")       \* a hex string for data and input

NumberValues == {Undef, Null, Obj, EmptyHex, Bad} \cup {Num(f) : f \in Formats}
IdValues     == {Undef, Bad} \cup {Num(f) : f \in Formats}
BytesValues  == {Undef, Null, Hex}
Commons ==
    {Undef} \cup [customChain : {Undef} \cup [networkId : IdValues,
                                                  chainId : IdValues]]

\* formattableProperties, in the code's order.
FormattableProperties ==
    <<"value", "gas", "gasPrice", "type", "maxFeePerGas",
      "maxPriorityFeePerGas", "nonce", "chainId", "gasLimit", "v">>

Keys == SeqExt!ToSet(FormattableProperties) \cup {"data", "input", "common"}

ASSUME {"data", "input", "common"} \subseteq Fields /\ Fields \subseteq Keys
ASSUME Formats # {}

ValuesOf(p) ==
    CASE p \in {"data", "input"} -> BytesValues
      [] p = "common"            -> Commons
      [] OTHER                   -> NumberValues

Transactions == {t \in [Fields -> UNION {ValuesOf(p) : p \in Fields}] :
                    \A p \in Fields : t[p] \in ValuesOf(p)}

\* What formatTransaction returns or throws.
Returned(t) == [err |-> "none", tx |-> t]
Thrown(e, payload) == [err |-> e, tx |-> payload]
NotCalled(t) == [err |-> "notCalled", tx |-> t]

\* TransactionDataAndInputError, the error thrown for data and input.
TransactionDataAndInputError == "dataAndInput"

\* convertToValidType (web3-utils): a number, or a hex string such as '0x',
\* in the desired format; a string that is no number throws.
ConvertToValidType(x, d) ==
    IF x = Bad THEN Thrown("invalidNumber", x) ELSE Returned(Num(d))

(***************************************************************************)
(* The implementation, phase by phase.                                     *)
(***************************************************************************)

\* The guard of the loop body: defined, not null, not an object or array.
IsFormattable(x) == x \notin {Undef, Null, Obj}

\* The loop body for one property, on the accumulated outcome.
ConvertFieldNoSkip(acc, p, d) ==
    IF acc.err # "none" \/ p \notin Fields \/ ~IsFormattable(acc.tx[p])
      THEN acc
      ELSE LET c == ConvertToValidType(acc.tx[p], d)
           IN IF c.err # "none" THEN c
              ELSE Returned([acc.tx EXCEPT ![p] = c.tx])

ConvertField(acc, p, d) ==
    IF acc.err # "none" \/ p \notin Fields \/ ~IsFormattable(acc.tx[p])
       \/ (p = "value" /\ acc.tx[p] = EmptyHex)
      THEN acc
      ELSE LET c == ConvertToValidType(acc.tx[p], d)
           IN IF c.err # "none" THEN c
              ELSE Returned([acc.tx EXCEPT ![p] = c.tx])

ConvertCustomChainFlat(acc, d) ==
    IF acc.err # "none" \/ acc.tx.common = Undef
       \/ acc.tx.common.customChain = Undef
      THEN acc
      ELSE LET cc  == acc.tx.common.customChain
               Id(x) == IF x = Undef THEN Returned(x)
                        ELSE ConvertToValidType(x, d)
               net == Id(cc.networkId)
               chn == Id(cc.chainId)
           IN CASE net.err # "none" -> net
                [] chn.err # "none" -> chn
                [] OTHER -> Returned([acc.tx EXCEPT !.common =
                                        [networkId |-> net.tx,
                                         chainId |-> chn.tx]])

\* The customChain ids that are defined are converted, networkId first.
ConvertCustomChain(acc, d) ==
    IF acc.err # "none" \/ acc.tx.common = Undef
       \/ acc.tx.common.customChain = Undef
      THEN acc
      ELSE LET cc  == acc.tx.common.customChain
               Id(x) == IF x = Undef THEN Returned(x)
                        ELSE ConvertToValidType(x, d)
               net == Id(cc.networkId)
               chn == Id(cc.chainId)
           IN CASE net.err # "none" -> net
                [] chn.err # "none" -> chn
                [] OTHER -> Returned([acc.tx EXCEPT !.common.customChain =
                                        [networkId |-> net.tx,
                                         chainId |-> chn.tx]])

\* Both data and input throw; input alone moves to data and is deleted.
MoveInputKeep(acc) ==
    CASE acc.err # "none" -> acc
      [] acc.tx.data # Undef /\ acc.tx.input # Undef ->
             Thrown(TransactionDataAndInputError,
                    [data |-> acc.tx.data, input |-> acc.tx.input])
      [] acc.tx.input # Undef ->
             Returned([acc.tx EXCEPT !.data = acc.tx.input])
      [] OTHER -> acc

MoveInput(acc) ==
    CASE acc.err # "none" -> acc
      [] acc.tx.data # Undef /\ acc.tx.input # Undef ->
             Thrown(TransactionDataAndInputError,
                    [data |-> acc.tx.data, input |-> acc.tx.input])
      [] acc.tx.input # Undef ->
             Returned([acc.tx EXCEPT !.data = acc.tx.input, !.input = Undef])
      [] OTHER -> acc

MergeDeepKeepNull(t) == t

\* mergeDeep({}, transaction) (web3-utils) copies only the keys whose value
\* is neither null nor undefined, objects key by key (so they stay objects):
\* a null field is absent from the copy.  The spreads of common and
\* customChain copy them once more, which as a value changes nothing.
MergeDeep(t) == [p \in Fields |-> IF t[p] = Null THEN Undef ELSE t[p]]

\* The copy, then the three phases.
FormatTransaction(t, d) ==
    LET Step(acc, p) == ConvertField(acc, p, d)
    IN MoveInput(ConvertCustomChain(
          SeqExt!FoldLeft(Step, Returned(MergeDeep(t)), FormattableProperties), d))

(***************************************************************************)
(* The reference: what the result is, field by field.                      *)
(***************************************************************************)

FormatReference(t, d) ==
    LET converted == {p \in Fields \cap SeqExt!ToSet(FormattableProperties) :
                        IsFormattable(t[p]) /\ ~(p = "value" /\ t[p] = EmptyHex)}
        hasIds == t.common # Undef /\ t.common.customChain # Undef
        ids == IF hasIds THEN {t.common.customChain.networkId,
                               t.common.customChain.chainId}
               ELSE {}
        Id(x) == IF x = Undef THEN Undef ELSE Num(d)
        Present(p) == t[p] \notin {Undef, Null}
        result ==
          [p \in Fields |->
             CASE p \in converted -> Num(d)
               [] p = "data" /\ Present("input") -> t.input
               [] p = "input" -> Undef
               [] p = "common" /\ hasIds ->
                    [customChain |-> [networkId |-> Id(t.common.customChain.networkId),
                                      chainId |-> Id(t.common.customChain.chainId)]]
               [] t[p] = Null -> Undef
               [] OTHER -> t[p]]
    IN CASE Bad \in {t[p] : p \in converted} \cup ids ->
              Thrown("invalidNumber", Bad)
         [] Present("data") /\ Present("input") ->
              Thrown(TransactionDataAndInputError,
                     [data |-> t.data, input |-> t.input])
         [] OTHER -> Returned(result)

-----------------------------------------------------------------------------

Init ==
    /\ tx \in Transactions
    /\ desired \in Formats
    /\ out = NotCalled(tx)

\* One call of formatTransaction(tx, desired).
Format ==
    /\ out.err = "notCalled"
    /\ out' = FormatTransaction(tx, desired)
    /\ UNCHANGED <<tx, desired>>

Next == Format

Spec == Init /\ [][Next]_vars

-----------------------------------------------------------------------------
(* Properties.                                                             *)

TypeOK ==
    /\ tx \in Transactions
    /\ desired \in Formats
    /\ out.err \in {"notCalled", "none", "invalidNumber",
                    TransactionDataAndInputError}
    /\ out.err = "none" => out.tx \in Transactions

\* Formatting a formatted transaction again, to any number format, gives
\* what formatting the original to that format gives: callers format the
\* same transaction more than once (once per layer), so the move of input
\* to data and the deletion of input must not change a later call.
Retargetable ==
    out.err = "none" =>
        \A d2 \in Formats : FormatTransaction(out.tx, d2) = FormatTransaction(tx, d2)

\* The loop, the customChain phase and the data/input phase, run in the
\* code's order, return or throw exactly what the field-by-field reference
\* says: which fields are converted (primitive, not null, not an object,
\* value '0x' skipped), which error wins when a bad number and a
\* data/input conflict coincide, and where input ends up, a null data or
\* input counting as absent because the copy drops it.
MatchesReference ==
    out.err # "notCalled" => out = FormatReference(tx, desired)

=============================================================================
