----------------------------- MODULE MethodLaws -----------------------------
(***************************************************************************)
(* What the built-in methods owe each other: laws, for every value of the  *)
(* sets below, and `sample', a law with the arguments it is asked of.      *)
(***************************************************************************)
EXTENDS Methods

VARIABLE sample

ByteStrings == Seq(0 .. 255)
\* Other objects are given by a sequence that tells them apart.
ScalarValues ==
    ({"nil"} \X {0}) \cup ({"bool"} \X BOOLEAN) \cup ({"int", "float"} \X Int)
    \cup ({"string"} \X ByteStrings) \cup ({"list", "map", "fn"} \X Seq(Int))

MethodInputs ==
    ({"text"} \X ByteStrings \X {p \in ByteStrings : NoNul(p)} \X ByteStrings)
    \cup ({"slice"} \X ByteStrings \X Int \X Int)
    \cup ({"list"} \X Seq(ScalarValues) \X Int \X ScalarValues)
    \cup ({"order"} \X ScalarValues \X ScalarValues \X ScalarValues)

TextLaws(s, p, q) ==
    /\ NoNul(p) /\ p # <<>> => Joined(string_split_method(s, p), p) = s
    /\ \A i \in DOMAIN string_split_method(s, <<>>) : string_split_method(s, <<>>)[i] = <<s[i]>>
    /\ NoNul(s \o p) /\ p # <<>> =>
          /\ string_replace_method(s, p, q) = Joined(string_split_method(s, p), q)
          /\ p = q => string_replace_method(s, p, q) = s
          /\ Len(string_replace_method(s, p, q)) = NewLength(s, p, q)
    /\ NoNul(s \o p) =>
          /\ string_contains_method(s, p) <=> string_index_of_method(s, p) >= 0
          /\ string_contains_method(s, p) =>
                LET i == string_index_of_method(s, p) IN
                /\ string_starts_with_method(string_slice_method(s, i, Len(s)), p)
                /\ ~string_contains_method(string_slice_method(s, 0, i + Len(p) - 1), p) \/ p = <<>>
    /\ string_starts_with_method(s, p) <=> string_ends_with_method(reverse(s), reverse(p))
    /\ trim(trim(s)) = trim(s) /\ lower(upper(lower(s))) = lower(s)
    /\ list_join_method([i \in DOMAIN s |-> <<"string", chars(s)[i]>>], <<>>) = s
\* Both slices at k, counted from either end, make the whole again.  A padded
\* text is as long as it should be only below 2 ^ 32; above, it is shorter.
SliceLaws(s, k, n) ==
    /\ string_slice_method(s, 0, k) \o string_slice_method(s, k, Len(s)) = s
    /\ n >= 0 /\ n < MaxCopies /\ (n + 1) * Len(s) <= MaxRepeated =>
          string_repeat_method(s, n) \o s = string_repeat_method(s, n + 1)
    /\ PadFits(s, n) =>
          /\ Len(string_pad_left_method(s, n, 32)) = Len(string_pad_right_method(s, n, 32))
          /\ n < Uint32 => Len(string_pad_left_method(s, n, 32)) >= n
          /\ string_ends_with_method(string_pad_left_method(s, n, 32), s)
    /\ to_i(value_to_string(IntValue(n))) = n
At(list, x) == {i \in DOMAIN list : list[i] = x}
ListLaws(list, k, v) ==
    LET inserted == list_insert_method(list, k, v)
        sorted == list_sort_method(list)
        uniq == list_uniq_method(list)
    IN  /\ list_slice_method(list, 0, k) \o list_slice_method(list, k, Len(list)) = list
        /\ k >= 0 /\ k <= Len(list) => list_remove_method(inserted, k) = <<list, v>>
        /\ Len(inserted) = Len(list) + 1
        /\ list_shift_method(list_unshift_method(list, <<v>>)) = <<list, v>>
        /\ pop(list_push_method(list, <<v>>)) = <<list, v>>
        /\ list # <<>> => list_remove_method(list, -1) = pop(list)
        /\ \A i \in 1 .. Len(list) - 1 : value_compare(sorted[i], sorted[i + 1]) <= 0
        /\ \A x \in Range(sorted \o list) : Cardinality(At(sorted, x)) = Cardinality(At(list, x))
        /\ IsInjective(uniq) /\ Range(uniq) = Range(list)
        /\ list_flatten_method(list_zip_method(list, Reverse(list)))
              = [i \in 1 .. 2 * Len(list) |->
                    IF i % 2 = 1 THEN list[(i + 1) \div 2] ELSE Reverse(list)[i \div 2]]
\* The order that sort relies on, for any three values.
OrderLaws(a, b, c) ==
    /\ Sign(value_compare(a, b), 0) = -Sign(value_compare(b, a), 0)
    /\ value_compare(a, b) <= 0 /\ value_compare(b, c) <= 0 => value_compare(a, c) <= 0
    /\ value_compare(a, b) = 0 /\ value_compare(b, c) < 0 => value_compare(a, c) < 0

MethodLaw(s) ==
    CASE s[1] = "text" -> TextLaws(s[2], s[3], s[4])
      [] s[1] = "slice" -> SliceLaws(s[2], s[3], s[4])
      [] s[1] = "list" -> ListLaws(s[2], s[3], s[4])
      [] s[1] = "order" -> OrderLaws(s[2], s[3], s[4])

-----------------------------------------------------------------------------
(* Properties.                                                             *)

\* The methods of strings and lists agree with each other (vm.c): what one
\* finds, cuts, moves or sorts is where, and what, the others say it is.
MethodsAgree == sample \in MethodInputs => MethodLaw(sample)
=============================================================================
