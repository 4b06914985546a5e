---------------------------- MODULE FileBrowser ----------------------------
(***************************************************************************)
(* The file field of LuCI (ui.js, UIFileUpload): a button with the name of *)
(* the chosen file, a hidden input that the form reads, and a browser of   *)
(* directories.  Listings, removals and uploads are answered in any order, *)
(* each by redrawing whatever the browser shows by then.                   *)
(***************************************************************************)
EXTENDS Naturals

CONSTANTS
    Root,         \* the directory at the top
    DirOf,        \* DirOf[e]: the directory that file or directory e is in
    Folders,      \* the entries that are directories
    NoFile,       \* no entry
    MaxBrowses    \* bound: clicks of the user

ASSUME BrowserAssumption ==
    /\ Folders \subseteq DOMAIN DirOf
    /\ \A e \in DOMAIN DirOf : DirOf[e] \in Folders \cup {Root}
    /\ \A d \in Folders : DirOf[d] = Root
    /\ Root \notin DOMAIN DirOf /\ NoFile \notin DOMAIN DirOf
    /\ MaxBrowses \in Nat

VARIABLES
    disk,      \* the entries that there are
    hidden,    \* value of the hidden input
    label,     \* the file that the button names; NoFile: "Select file"
    stat,      \* this.stat: the file whose directory is opened first
    browser,   \* the browser, see BrowserType
    calls,     \* requests under way
    doomed,    \* history: the chosen file is deleted by more than its own button
    browses    \* history: clicks so far

fileVars == <<disk, hidden, label, stat, browser, calls, doomed, browses>>

Paths == DOMAIN DirOf
Places == Folders \cup {Root}

\* open: class "open", the button is away; dir and list: what renderListing
\* was given; bold: the entry that it drew as selected, with "Deselect";
\* spinning: the rows have given way to "Loading directory contents".
BrowserType ==
    [open : BOOLEAN, dir : Places, list : SUBSET Paths, bold : Paths \cup {NoFile},
     spinning : BOOLEAN]

Closed == [open |-> FALSE, dir |-> Root, list |-> {}, bold |-> NoFile, spinning |-> FALSE]

\* A request; reply: what the server did with it, and found, what it listed;
\* linked: what was clicked to make it is still in the page.
Call(kind, path) ==
    [kind |-> kind, path |-> path, found |-> {}, reply |-> "none", linked |-> TRUE]

Above(e) == IF e = Root THEN {} ELSE {DirOf[e], Root}
Within(e, d) == e = d \/ d \in Above(e)
Inside(d) == {e \in disk : DirOf[e] = d}
Visible(e) == e \in browser.list /\ ~browser.spinning

FileTypeOK ==
    /\ disk \subseteq Paths
    /\ {hidden, label, stat} \subseteq Paths \cup {NoFile}
    /\ browser \in BrowserType
    /\ \A c \in calls : c.path \in Paths \cup {Root} /\ c.found \subseteq Paths
    /\ browses \in 0..MaxBrowses

-----------------------------------------------------------------------------
\* What the user clicks.
Browse == browses < MaxBrowses /\ browses' = browses + 1

\* dom.content on the browser or on its rows: the buttons that were in there
\* leave the page.
Unlinked(cs, kinds) == {[c EXCEPT !.linked = @ /\ c.kind \notin kinds] : c \in cs}
Spin(cs) == Unlinked(cs, {"remove"})

\* handleFileBrowser, on the button, which is disabled until the answer.
OpenBrowser ==
    /\ Browse
    /\ ~browser.open
    /\ \A c \in calls : c.kind # "open"
    /\ calls' = calls \cup {Call("open", IF stat = NoFile THEN Root ELSE DirOf[stat])}
    /\ UNCHANGED <<disk, hidden, label, stat, browser, doomed>>

\* handleSelect of a directory: a row, or the path above the rows.
EnterFolder ==
    /\ Browse
    /\ browser.open
    /\ \E d \in Places :
         /\ (d \in Folders /\ Visible(d)) \/ Within(browser.dir, d)
         /\ calls' = Spin(calls) \cup {Call("list", d)}
    /\ browser' = [browser EXCEPT !.spinning = TRUE]
    /\ UNCHANGED <<disk, hidden, label, stat, doomed>>

\* handleSelect of a file
SelectFile ==
    /\ Browse
    /\ browser.open
    /\ \E f \in Paths \ Folders :
         /\ Visible(f)
         /\ hidden' = f
         /\ label' = f
         /\ stat' = f
         /\ doomed' = (f \notin disk \/ \E c \in calls : c.kind = "remove" /\ Within(f, c.path))
    /\ browser' = [browser EXCEPT !.open = FALSE]
    /\ UNCHANGED <<disk, calls>>

\* handleCancel, also when the browser of another field opens.
CancelBrowser ==
    /\ Browse
    /\ browser.open
    /\ browser' = [browser EXCEPT !.open = FALSE]
    /\ UNCHANGED <<disk, hidden, label, stat, calls, doomed>>

\* handleReset, the button "Deselect"
Deselect ==
    /\ Browse
    /\ browser.open /\ browser.bold # NoFile /\ Visible(browser.bold)
    /\ hidden' = NoFile
    /\ label' = NoFile
    /\ browser' = [browser EXCEPT !.open = FALSE]
    /\ UNCHANGED <<disk, stat, calls, doomed>>

\* Mutant: the field keeps the file until it is gone.
AfterDeleteKept(e, file) == file

\* The field lets go of a file that is deleted, before it is gone.
AfterDelete(e, file) == IF e = hidden THEN NoFile ELSE file

\* handleDelete, confirmed.
DeleteEntry ==
    /\ Browse
    /\ browser.open
    /\ \E e \in Paths :
         /\ Visible(e)
         /\ \A c \in calls : ~(c.kind = "remove" /\ c.path = e /\ c.linked)
         /\ calls' = calls \cup {Call("remove", e)}
         /\ hidden' = AfterDelete(e, hidden)
         /\ label' = AfterDelete(e, label)
         /\ doomed' = (doomed \/ (hidden \notin {e, NoFile} /\ Within(hidden, e)))
    /\ UNCHANGED <<disk, stat, browser>>

\* handleUpload, into the directory of the listing; to replace a file that the
\* listing has is confirmed first, one that is a directory there is refused.
UploadFile ==
    /\ Browse
    /\ browser.open
    /\ \E e \in Paths :
         /\ DirOf[e] = browser.dir
         /\ e \in Folders => e \notin browser.list
         /\ calls' = calls \cup {Call("upload", e)}
    /\ UNCHANGED <<disk, hidden, label, stat, browser, doomed>>

-----------------------------------------------------------------------------
\* The server does what was asked, or cannot; a directory that cannot be listed
\* is taken to be empty.
Serve ==
    /\ \E c \in calls :
         /\ c.reply = "none"
         /\ LET Reply(reply, found) ==
                  calls' = (calls \ {c}) \cup {[c EXCEPT !.reply = reply, !.found = found]}
            IN \/ /\ c.kind \in {"open", "list"} /\ UNCHANGED disk
                  /\ \E found \in {{}, Inside(c.path)} : Reply("done", found)
               \/ c.kind = "remove" /\ c.path \in disk
                    /\ Reply("done", {}) /\ disk' = {e \in disk : ~Within(e, c.path)}
               \/ c.kind = "upload" /\ DirOf[c.path] \in disk \cup {Root}
                    /\ c.path \notin Folders
                    /\ Reply("done", {}) /\ disk' = disk \cup {c.path}
               \/ c.kind \in {"remove", "upload"} /\ Reply("failed", {}) /\ UNCHANGED disk
    /\ UNCHANGED <<hidden, label, stat, browser, doomed, browses>>

\* renderListing
Listing(c, open) ==
    [open |-> open, dir |-> c.path, list |-> c.found, spinning |-> FALSE,
     bold |-> IF hidden \in c.found THEN hidden ELSE NoFile]

\* The listing for the button or for a directory has come: it is drawn
\* whatever was asked for since.
ListingCame ==
    /\ \E c \in calls :
         /\ c.reply # "none" /\ c.kind \in {"open", "list"}
         /\ browser' = Listing(c, browser.open \/ c.kind = "open")
         /\ calls' = Unlinked(calls \ {c}, {"remove", "upload"})
    /\ UNCHANGED <<disk, hidden, label, stat, doomed, browses>>

\* A removal or an upload is over: handleSelect of the directory, which finds
\* the browser only from a button that is still in the page.  A removal that
\* failed is reported.
Over ==
    /\ \E c \in calls :
         /\ c.reply # "none" /\ c.kind \in {"remove", "upload"}
         /\ IF c.linked /\ (c.kind = "remove" => c.reply = "done")
            THEN /\ browser' = [browser EXCEPT !.spinning = TRUE]
                 /\ calls' = Spin(calls \ {c}) \cup {Call("list", DirOf[c.path])}
            ELSE calls' = calls \ {c} /\ UNCHANGED browser
    /\ UNCHANGED <<disk, hidden, label, stat, doomed, browses>>

-----------------------------------------------------------------------------
\* render, with a value whose file may be missing.
FileInit ==
    /\ hidden \in (Paths \ Folders) \cup {NoFile}
    /\ disk \in {Paths, Paths \ {hidden}}
    /\ label = hidden
    /\ stat = IF hidden \in disk THEN hidden ELSE NoFile
    /\ browser = Closed
    /\ calls = {}
    /\ doomed = (hidden \notin disk \cup {NoFile})
    /\ browses = 0

NoFileField ==
    /\ disk = {}
    /\ hidden = NoFile /\ label = NoFile /\ stat = NoFile
    /\ browser = Closed
    /\ calls = {}
    /\ doomed = FALSE
    /\ browses = 0

FileNext ==
    \/ OpenBrowser \/ EnterFolder \/ SelectFile \/ CancelBrowser \/ Deselect
    \/ DeleteEntry \/ UploadFile \/ Serve \/ ListingCame \/ Over

\* What the field hands to the form is what its button names and what the open
\* browser marks: a listed file that is chosen has "Deselect", and another has
\* it only after the choice was deleted.  A file that was deleted with its own
\* button is not handed over, however the removal, listings and uploads are
\* answered, unless it was chosen again.  (handleSelect, handleDelete and
\* handleReset, which each change two of the three, against renderListing.)
FileIsShown ==
    /\ label = hidden
    /\ browser.open /\ hidden # NoFile /\ Visible(hidden) => browser.bold = hidden
    /\ browser.open /\ browser.bold # NoFile => hidden \in {browser.bold, NoFile}
    /\ hidden # NoFile /\ hidden \notin disk => doomed
=============================================================================
