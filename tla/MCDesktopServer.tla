---------------------------- MODULE MCDesktopServer ----------------------------
(***************************************************************************)
(* Two requests: a takes each way an operation can be asked for, b sends   *)
(* one of two forms meanwhile. Every form lists its parts as a browser     *)
(* does, the operation and the regime first.                               *)
(***************************************************************************)
EXTENDS DesktopServer

MCPosts == {"a", "b"}
MCFieldOrder == <<"file", "file_book", "file_feedback", "file_mapping", "file_tar", "file_tsr">>

Ask(op, r) == <<Text("operation", op), Text("regime", r)>>
Xml(field, stem) == Upload(field, File(stem, "xml"), stem)
Blank(field) == Upload(field, File("upload", "bin"), Empty)
Book == Upload("file_book", File("book", "csv"), "book")
Mapping == Upload("file_mapping", File("mapping", "yml"), "mapping")
Tar == Xml("file_tar", "tar")
Tsr == Xml("file_tsr", "tsr")
Answers == Xml("file_feedback", "answers")

\* A second file called tar.xml.
SameNameTsr == Upload("file_tsr", File("tar", "xml"), "tsr")

Asked ==
    { Ask("scan", "emir") \o <<Xml("file", "tar")>>,
      Ask("scan", "sftr") \o <<Upload("file", File("rows", "parquet"), "rows")>>,
      Ask("scan", "emir") \o <<Upload("file", File("book", "csv"), "book")>>,
      Ask("tr-state-scan", "sftr") \o <<Xml("file", "tsr"), Blank("file_tsr")>>,
      Ask("tr-activity-scan", "sftr") \o <<Xml("file", "tar")>>,
      Ask("feedback", "emir") \o <<Xml("file", "answers")>>,
      Ask("mar-scan", "emir") \o <<Xml("file", "margins")>>,
      Ask("msr-scan", "emir") \o <<Xml("file", "margins")>>,
      Ask("recon-stats", "emir") \o <<Blank("file"), Xml("file_tsr", "stats")>>,
      Ask("warnings", "sftr") \o <<Xml("file", "warnings")>>,
      Ask("warnings", "emir") \o <<Xml("file", "warnings")>>,
      Ask("validate", "emir") \o <<Upload("file", File("broken", "xml"), "book")>>,
      Ask("missing-collateral", "sftr") \o <<Xml("file", "request"), Tsr>>,
      Ask("missing-collateral", "sftr") \o <<Xml("file", "tar"), SameNameTsr>>,
      Ask("missing-collateral", "sftr") \o <<Tsr>>,
      Ask("tr-audit", "emir") \o <<Tsr, Tar, Answers>>,
      Ask("tr-audit", "emir") \o <<SameNameTsr, Tar, Answers>>,
      Ask("tr-audit", "sftr") \o <<Blank("file"), Tsr, Tar, Answers>>,
      Ask("tr-audit", "emir") \o <<Xml("file", "tar"), Tsr, Tar, Answers>>,
      Ask("book-reconcile", "emir") \o <<Book, Tsr, Mapping>>,
      Ask("book-reconcile", "sftr") \o <<Book, Tsr>>,
      Ask("book-reconcile", "emir") \o
          <<Book, Tsr, Upload("file_mapping", File("mapping", "yml"), "book")>>,
      Ask("scan", "emir") \o <<Blank("file")>>,
      Ask("delete", "emir") \o <<Xml("file", "tar")>>,
      <<Text("comment", "none")>> \o Ask("scan", "emir") \o <<Text("regime", "mifid"), Xml("file", "tar")>> }

Meanwhile ==
    { Ask("tr-state-scan", "sftr") \o <<Upload("file", File("tar", "xml"), "other")>>,
      Ask("missing-collateral", "sftr") \o <<Upload("file", File("tar", "xml"), "other"), Tsr>> }

MCForms == [p \in MCPosts |-> IF p = "a" THEN Asked ELSE Meanwhile]

\* A mapping that is no YAML.
MCUnreadable == {<<"yaml", "book">>}
MCSilent == {"rows", "tsr"}
================================================================================
