-------------------------- MODULE MCPublishDirectory --------------------------
(* Instances of PublishDirectory for TLC.                                      *)
EXTENDS PublishDirectory

ThreeArches == {"amd64", "amd64+mac", "i386"}
Processor == ("amd64" :> "amd64") @@ ("amd64+mac" :> "amd64") @@ ("i386" :> "i386")

\* All, without the subarchitecture, and a rebuild of one.
SomeRequests == {<<"amd64", "amd64+mac", "i386">>, <<"amd64", "i386">>, <<"amd64+mac">>}

\* In units of 100 MB: all images are 800 MB, too much for a CD.
Image800(gzip, type) == [gzip |-> gzip, type |-> type, size |-> 8]
Nothing == [raw |-> NoImage, beside |-> {}, summed |-> FALSE]
Whole(gzip, type) ==
    [raw |-> Image800(gzip, type), beside |-> {"manifest", "bootimg"}, summed |-> TRUE]
WithoutBootimg(gzip, type) ==
    [raw |-> Image800(gzip, type), beside |-> {"manifest"}, summed |-> TRUE]
Unsummed(gzip, type) ==
    [raw |-> Image800(gzip, type), beside |-> {}, summed |-> FALSE]

\* No image, some with all that belongs to them; i386 turns from an image
\* without checksums in scratch to one that gets none where it is published,
\* and may be all that a build has.
SomeOutcomes ==
    ("amd64" :> {Nothing, Whole(FALSE, "ISO9660")})
    @@ ("amd64+mac" :> {Whole(FALSE, "bootSector")})
    @@ ("i386" :> {WithoutBootimg(TRUE, "ISO9660"), Unsummed(FALSE, "unknown")})
=============================================================================
