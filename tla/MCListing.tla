----------------------------- MODULE MCListing -----------------------------
(* Small instances of Listing. *)
EXTENDS Listing

\* A missing limit, one that is refused in either way, the smallest that is
\* not, which stands for no limit, and one above the maximum.
MCRawLimits == {Unset, NotANumber, -1, 0, 3}

\* Bound of the state space: elements or results.  No statement touches both
\* tables, and no listing shows both.
OneTable == Elements = {} \/ recorded = {}
=============================================================================
