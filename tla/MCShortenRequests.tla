------------------------ MODULE MCShortenRequests ------------------------
(***************************************************************************)
(* Small instances of ShortenRequests.  Raw URLs are the parts that        *)
(* normalizeURL tells apart: "a" and "http://a" are one URL, "https://a"   *)
(* is another, "ftp://a" is refused.                                       *)
(***************************************************************************)
EXTENDS ShortenRequests, TLC

CONSTANTS NoScheme, NoHost

U == INSTANCE UrlText

Raw(scheme, host) == [blank |-> FALSE, scheme |-> scheme, host |-> host]

MCRaws ==
    {Raw(NoScheme, "a"), Raw("http", "a"), Raw("https", "a"), Raw("ftp", "a")}
MCUrls == {U!normalizeURL(raw) : raw \in MCRaws} \ {BadUrl}
MCNormalize == [raw \in MCRaws |-> U!normalizeURL(raw)]

\* Ids are drawn at random and requests of one kind run the same code.
Symmetric == Permutations(Ids) \cup Permutations(Singles) \cup Permutations(Batches)
=============================================================================
