------------------------------ MODULE MCPreview ------------------------------
(***************************************************************************)
(* Previews of streams of up to six bytes: images whose header takes one   *)
(* to three bytes, some of them text as well, texts with a character of    *)
(* two bytes, and bytes that are neither.                                  *)
(***************************************************************************)
EXTENDS Preview

MCStreams ==
    [header : 0..3, text : BOOLEAN, cuts : {{}, {1}, {2}, {3}}]

MCConfigs ==
    [max_preview_bytes : 0..4, max_hex_bytes : 0..3, max_image_bytes : 1..5]
=============================================================================
