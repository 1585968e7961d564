---------------------------- MODULE SafeSettings ----------------------------
(* internal/safesettings and `arbot safe`: reading the settings of a Safe    *)
(* from its storage, one slot at a time, as of one block. What isn't a Safe  *)
(* has any storage, so a list of owners or modules may loop or not end.      *)
EXTENDS Naturals, Sequences

CONSTANTS
  Entries,        \* addresses that may be in a list
  MaxListLength,  \* the most entries that a list is read to
  Storages        \* what a Safe may store: for each list, a function from Keys to Values

Sentinel == "sentinel"

Zero == "zero"

Keys == Entries \cup {Sentinel}

Values == Keys \cup {Zero}

VARIABLES
  storage,  \* the mappings of the Safe: [owners |-> , modules |-> ]
  at,       \* what is read next: an index of Slots
  next,     \* the last value read from the list, or "start"
  lists,    \* the entries that were read
  err,      \* the first error, if any
  failed    \* whether a request failed

vars == <<storage, at, next, lists, err, failed>>

\* What Read reads, in order. Both lists come last.
Slots == <<"singleton", "ownerCount", "threshold", "nonce", "fallbackHandler", "guard", "moduleGuard",
           "owners", "modules">>

List == Slots[at]

Done == at > Len(Slots)

Init ==
  /\ storage \in Storages
  /\ at = 1 /\ next = "start" /\ lists = [owners |-> <<>>, modules |-> <<>>]
  /\ err = "none" /\ failed = FALSE

IsList == ~Done /\ List \in DOMAIN storage

\* Reads a slot that holds v. A request that fails leaves a zero value, as does
\* any slot after it, which isn't read.
Reads(v) ==
  \/ err # "none" /\ next' = Zero /\ UNCHANGED <<err, failed>>
  \/ err = "none" /\ next' = v /\ UNCHANGED <<err, failed>>
  \/ err = "none" /\ next' = Zero /\ err' = "request" /\ failed' = TRUE

Word ==
  /\ ~Done /\ ~IsList
  /\ Reads("start")
  /\ at' = at + 1
  /\ UNCHANGED <<storage, lists>>

Start ==
  /\ IsList /\ next = "start"
  /\ Reads(storage[List][Sentinel])
  /\ UNCHANGED <<storage, at, lists>>

Full == Len(lists[List]) = MaxListLength

Loops == next # Sentinel /\ err = "none"

\* Appends the entry, and reads what it points to.
ListEntry ==
  /\ IsList /\ next \in Entries /\ Loops /\ ~Full
  /\ lists' = [lists EXCEPT ![List] = Append(@, next)]
  /\ Reads(storage[List][next])
  /\ UNCHANGED <<storage, at>>

NextSlot == at' = at + 1 /\ next' = "start" /\ UNCHANGED <<storage, lists, failed>>

\* Mutant: zero ends a list, wherever it is.
ZeroEnds == next = Zero

\* A list that was never set up starts with zero.
Empty == next = Zero /\ lists[List] = <<>>

ListFails ==
  /\ IsList /\ next # "start" /\ ~Empty /\ Loops
  /\ \/ next = Zero /\ err' = "ends"
     \/ next \in Entries /\ Full /\ err' = "too long"
  /\ NextSlot

ListEnds ==
  /\ IsList /\ next # "start"
  /\ Empty \/ ~Loops
  /\ NextSlot /\ UNCHANGED err

Read == Word \/ Start \/ ListEntry \/ ListFails \/ ListEnds

Spec == Init /\ [][Read]_vars

-----------------------------------------------------------------------------

\* Where a list is after n entries.
Pointer(l) ==
  LET p[n \in 0..MaxListLength + 1] ==
        IF n = 0 THEN storage[l][Sentinel]
        ELSE IF p[n - 1] \in Entries THEN storage[l][p[n - 1]] ELSE p[n - 1]
  IN p

\* The settings have all entries of both lists, in order, and none twice: the
\* lists come back to their start after the last (Read).
ReadsWholeLists ==
  Done /\ err = "none" =>
    \A l \in DOMAIN lists :
      /\ Pointer(l)[Len(lists[l])] = (IF storage[l][Sentinel] = Zero THEN Zero ELSE Sentinel)
      /\ \A k \in DOMAIN lists[l] : lists[l][k] = Pointer(l)[k - 1]
      /\ \A j, k \in DOMAIN lists[l] : lists[l][j] = lists[l][k] => j = k

\* The settings are read unless a request failed, a list ends at zero, or one is
\* longer than the bound, as the error says ("returns an error if a list of
\* owners or modules doesn't end, or ends without coming back to its start").
\* However a list loops, no more entries are read than the bound.
ErrorSaysWhy ==
  /\ \A l \in DOMAIN lists : Len(lists[l]) <= MaxListLength
  /\ err = "request" => failed
  /\ err = "ends" => \E l \in DOMAIN storage : /\ storage[l][Sentinel] # Zero
                                                /\ Pointer(l)[MaxListLength + 1] = Zero
  /\ err = "too long" => \E l \in DOMAIN storage : Pointer(l)[MaxListLength] \in Entries
  /\ Done /\ failed => err = "request"
=============================================================================
