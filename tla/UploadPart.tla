------------------------------ MODULE UploadPart ------------------------------
(***************************************************************************)
(* An upload with its second copy (TeeUpload), as a part of a node.        *)
(***************************************************************************)
EXTENDS Naturals

CONSTANTS Size, Nothing

VARIABLES alt, hashin, read, pipe, tee, pc, got, tmp, owned, answer, remote, rgot, bg, bgch

tvars == <<alt, hashin, read, pipe, tee, pc, got, tmp, owned, answer, remote, rgot, bg,
           bgch>>

T == INSTANCE TeeUpload

ASSUME UploadAssumption == T!SizeAssumption

-------------------------------------------------------------------------------
\* TeeUpload: 201 means that the blob is whole, here and there, and a body that
\* was cut off becomes a blob only with a second copy and no X-CBFS-Hash.
UploadRight == T!TypeOK /\ T!AckedWhole /\ T!CutOnlyUnhashed

===============================================================================
