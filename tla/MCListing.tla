------------------------------ MODULE MCListing ------------------------------
(* A small instance of Listing for TLC: three files of two containers. *)
EXTENDS Listing

ThreeFiles == 1..3
TwoBoxes == [f \in ThreeFiles |-> IF f < 3 THEN 1 ELSE 2]
OneBinary == {2}
\* Each way of walking a source. GCS and Azure Blob are listed as S3.
EveryAdapter == {S3, GCS, AzureBlob, Filesystem, Database, Dropbox, OneDrive, SharePoint,
                 GoogleDrive, Notion, Confluence, GitHub, Slack}
\* The marks 1 to 5 stand for 8 to 12: as text 10 comes before 8.
FromEight == <<4, 5, 1, 2, 3>>
=============================================================================
