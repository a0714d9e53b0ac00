--------------------------- MODULE MCPlatformHttp ---------------------------
(***************************************************************************)
(* A small instance of the three transports: three posts, replies of two   *)
(* header and two body units, two polls before a Nano gives up.  The kinds *)
(* of replies have their first '{' at the start of the body, in the middle *)
(* of it (a page), in a header line or nowhere, and their grpc-status in a *)
(* header, in a trailer that overrides it, both ways, or not at all; an    *)
(* HTTPClient does not look at trailers.                                   *)
(***************************************************************************)
EXTENDS PlatformHttp

CONSTANTS plain, accepted, page, refused, lateRefusal, lateAcceptance

MCKinds == {plain, accepted, page, refused, lateRefusal, lateAcceptance}

\* First '{', grpc-status lines as curl sees them, grpc-status of an HTTPClient.
Row(k) ==
    CASE k = plain          -> <<2, <<>>, "none">>
      [] k = accepted       -> <<2, <<"zero">>, "zero">>
      [] k = page           -> <<3, <<"spaced">>, "zero">>
      [] k = refused        -> <<4, <<"nonzero">>, "nonzero">>
      [] k = lateRefusal    -> <<2, <<"zero", "nonzero">>, "zero">>
      [] k = lateAcceptance -> <<1, <<"nonzero", "zero">>, "nonzero">>

MCStart == [k \in MCKinds |-> Row(k)[1]]
MCStatusLines == [k \in MCKinds |-> Row(k)[2]]
MCStatus == [k \in MCKinds |-> Row(k)[3]]
=============================================================================
