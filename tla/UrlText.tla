------------------------------ MODULE UrlText ------------------------------
(***************************************************************************)
(* What normalizeURL and validateURL of internal/service/shortener.go do   *)
(* to a submitted string.  A raw URL is the parts the two functions tell   *)
(* apart: whether anything is left after trimming, the scheme before       *)
(* "://" (NoScheme when there is none), and the rest, whose host may be    *)
(* empty.                                                                  *)
(***************************************************************************)
CONSTANTS NoScheme, NoHost, BadUrl

\* "example.com" and "http://example.com" become the same URL.
withScheme(raw) ==
    IF raw.scheme = NoScheme THEN [raw EXCEPT !.scheme = "http"] ELSE raw

validateURL(url) == url.scheme \in {"http", "https"} /\ url.host # NoHost

normalizeURL(raw) ==
    IF raw.blank \/ ~validateURL(withScheme(raw)) THEN BadUrl ELSE withScheme(raw)
=============================================================================
