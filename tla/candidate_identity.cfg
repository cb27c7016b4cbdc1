\* Two submissions, one manual creation at a time, one change by hand and one script run, on a
\* database whose unique index still tells capitals apart.
CONSTANTS
    ana = ana
    Ana = Ana
    ben = ben
    desk = desk
    anas = anas
    bens = bens
    desks = desks
    mobile = mobile
    office = office
    cv = cv
    note = note
    upload = upload
    resume = resume
    sheet = sheet
    job1 = job1
    Addresses = {ana, Ana, ben, desk}
    MailboxOf <- MCMailboxOf
    Phones = {mobile, office}
    OfficeMail = {desks}
    OfficePhones = {office}
    Messages = {cv, note}
    Extracted <- MCExtracted
    Entered <- MCEntered
    Upload = upload
    Document <- MCDocument
    Files = {cv, note, upload}
    Target <- MCTarget
    Jobs = {job1}
    Tasks = {t1}
    None = None
    MaxRows = 3
    MaxEdits = 1
    MaxScripts = 1
    PhoneLimit = 2
    FoldedIndex = FALSE
SPECIFICATION Spec
INVARIANTS
    TypeOK
    MailboxTwinsTyped
    OfficeContactsTyped
    TextBesideItsFile
    PointersHold
    ApplicationsFollow
PROPERTIES
    NewRowIsStranger
    FoldsOnlyWhenStale
    ClearsOnlyWhenStale
\* The system stops when every submission is filed.
CHECK_DEADLOCK FALSE
