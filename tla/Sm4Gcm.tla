------------------------------- MODULE Sm4Gcm -------------------------------
(***************************************************************************)
(* The AEAD that seals records (crypto/sm4tongsuo): one encryption and one *)
(* decryption context per key, each used again for every record.  What a   *)
(* context keeps between two calls is the associated data and the tag that *)
(* were set or computed last; SetKeyAndIV starts GCM afresh on every call. *)
(* Symbolically, a tag is the term of all it authenticates.                *)
(***************************************************************************)

Tag(key, aad, body) == [key |-> key, aad |-> aad, body |-> body]

\* NewEncrypter, NewDecrypter: neither associated data nor tag yet.
NewContext(key, nil) == [key |-> key, aad |-> nil, tag |-> nil]

SetAAD(ctx, aad) == [ctx EXCEPT !.aad = aad]

SetTag(ctx, tag) == [ctx EXCEPT !.tag = tag]

\* EncryptAll leaves the tag in the context, where GetTag finds it.
EncryptAll(ctx, body) == SetTag(ctx, Tag(ctx.key, ctx.aad, body))

\* DecryptFinal compares the tag that was set with the one it computes.
DecryptAll(ctx, body) == ctx.tag = Tag(ctx.key, ctx.aad, body)

\* The context after sm4AEADCipher.Seal; its tag goes out with the record.
Seal(ctx, aad, body) == EncryptAll(SetAAD(ctx, aad), body)

\* The context in which sm4AEADCipher.Open calls DecryptAll.
OpenWith(ctx, aad, tag) == SetTag(SetAAD(ctx, aad), tag)

=============================================================================
