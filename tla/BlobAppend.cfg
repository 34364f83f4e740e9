CONSTANTS
  Blobs = {b1}
  MaxBody = 2
  RecvMax = 1
  MaxBytes = 4
  MaxFaults = 0
  Absent = Absent
SPECIFICATION BlobSpec
PROPERTIES AppendStoresBody
